---- MODULE Spec2Model ----
(***************************************************************************)
(* keep-protocol relay server (keep.go): framed, signed packets over TCP,  *)
(* identity -> connection routing table with last-write-wins registration, *)
(* server / discover / forward dispatch and the heartbeat ticker.          *)
(***************************************************************************)
EXTENDS Integers, Sequences, FiniteSets, TLC

\* ------------------------------------------------------------------ bounds
\* Packets the server admits in a run.
MaxPackets == 3

\* --------------------------------------------------------- program constants
MaxScarEntries == 1000
PublicKeySize == 32
SignatureSize == 64
ServerVersion == "0.3.0"

\* ------------------------------------------------------------------ universe
\* Two client connections, numbered in the order main accepts them, and the
\* heartbeat goroutine.
Conns == {1, 2}
NoConn == 0
HB == 3
Tasks == Conns \cup {HB}
NoTask == 0

Srcs == {"", "bot:a", "bot:b"}
Identities == Srcs \ {""}
DiscoverDsts == {"discover:agents", "discover:info", "discover:stats", "discover:nope"}
Dsts == {"", "server", "bot:a"} \cup DiscoverDsts
RouteDsts == {"", "server", "bot:a"}
Ids == {"x1"}

\* A byte blob: its length and its content.
EmptyBlob == [n |-> 0, v |-> <<>>]
ScarBlob == [n |-> 5, v |-> <<"scar">>]
Scars == {EmptyBlob, ScarBlob}

\* A body is text, or a JSON object rendered by json.Marshal.
Text(s) == [text |-> s, json |-> <<>>]

\* The ten fields of message Packet.
Packet(sig, pk, typ, id, src, dst, body, fee, ttl, scar) ==
    [sig |-> sig, pk |-> pk, typ |-> typ, id |-> id, src |-> src, dst |-> dst,
     body |-> body, fee |-> fee, ttl |-> ttl, scar |-> scar]

NoPacket == Packet(EmptyBlob, EmptyBlob, 0, "", "", "", Text(""), 0, 0, EmptyBlob)

FieldName(k) ==
    CASE k = 1 -> "sig" [] k = 2 -> "pk" [] k = 3 -> "typ" [] k = 4 -> "id"
      [] k = 5 -> "src" [] k = 6 -> "dst" [] k = 7 -> "body" [] k = 8 -> "fee"
      [] k = 9 -> "ttl" [] OTHER -> "scar"

MarshalWithoutSig(p) ==
    SelectSeq([k \in 1..10 |-> <<k, p[FieldName(k)]>>],
              LAMBDA f : f[1] # 1 /\ f[2] # NoPacket[FieldName(f[1])])

\* proto.Marshal: the fields that are not at their zero value, in field
\* order, each as <<field number, value>>.
Marshal(p) ==
    SelectSeq([k \in 1..10 |-> <<k, p[FieldName(k)]>>],
              LAMBDA f : f[2] # NoPacket[FieldName(f[1])])

\* proto.Unmarshal: every field present takes its value, the others stay zero.
Unmarshal(data) ==
    [name \in DOMAIN NoPacket |->
        IF \E i \in 1..Len(data) : FieldName(data[i][1]) = name
        THEN data[CHOOSE i \in 1..Len(data) : FieldName(data[i][1]) = name][2]
        ELSE NoPacket[name]]

\* ------------------------------------------------------------------ ed25519
Keys == {1, 2}
PubKey(k) == [n |-> PublicKeySize, v |-> <<k>>]
Sign(k, msg) == [n |-> SignatureSize, v |-> <<k, msg>>]
Ed25519Verify(pk, msg, sig) ==
    /\ pk.n = PublicKeySize
    /\ sig.n = SignatureSize
    /\ Len(sig.v) = 2
    /\ sig.v[1] = pk.v[1]
    /\ sig.v[2] = msg

\* The bytes a client signs and the server reconstructs.
SignBytes(p) ==
    Marshal(Packet(EmptyBlob, EmptyBlob, p.typ, p.id, p.src, p.dst, p.body,
                   p.fee, p.ttl, p.scar))

verifySigNoVerify(p) ==
    /\ ~(p.sig.n = 0 \/ p.pk.n = 0)
    /\ p.pk.n = PublicKeySize
    /\ p.sig.n = SignatureSize

\* A packet with only one of sig and pk is taken as verified.
verifySigOneMissingOk(p) ==
    \/ p.sig.n = 0 \/ p.pk.n = 0
    \/ /\ p.pk.n = PublicKeySize
       /\ p.sig.n = SignatureSize
       /\ Ed25519Verify(p.pk, SignBytes(p), p.sig)

verifySig(p) ==
    /\ ~(p.sig.n = 0 \/ p.pk.n = 0)
    /\ p.pk.n = PublicKeySize
    /\ p.sig.n = SignatureSize
    /\ Ed25519Verify(p.pk, SignBytes(p), p.sig)


\* ------------------------------------------------------------- client input
Payload == [typ |-> 0, body |-> Text("hi"), fee |-> 1000, ttl |-> 300]
Content(id, src, dst, scar) ==
    Packet(EmptyBlob, EmptyBlob, Payload.typ, id, src, dst, Payload.body,
           Payload.fee, Payload.ttl, scar)

\* How a client fills sig and pk of a packet whose other fields are m.
BadModes == {"unsigned", "wrongkey", "tampered", "shortsig", "shortpk", "nosig", "nopk"}
Signed(m, mode) ==
    LET good == Sign(1, SignBytes(m))
        sig == CASE mode = "valid" -> good
                 [] mode = "unsigned" -> EmptyBlob
                 [] mode = "wrongkey" -> Sign(2, SignBytes(m))
                 [] mode = "tampered" -> Sign(1, SignBytes([m EXCEPT !.fee = 0]))
                 [] mode = "shortsig" -> [good EXCEPT !.n = SignatureSize - 1]
                 [] mode = "shortpk" -> good
                 [] mode = "nosig" -> EmptyBlob
                 [] OTHER -> good
        pk == CASE mode \in {"unsigned", "nopk"} -> EmptyBlob
                [] mode = "shortpk" -> [PubKey(1) EXCEPT !.n = PublicKeySize - 1]
                [] OTHER -> PubKey(1)
    IN [m EXCEPT !.sig = sig, !.pk = pk]

\* The packets clients send: every content with a valid signature, and one
\* content under every other way of filling sig and pk.
GoodInputs == {Signed(Content(id, src, dst, EmptyBlob), "valid") :
                  id \in Ids, src \in Srcs, dst \in RouteDsts}
BadInputs == {Signed(Content("x1", "bot:b", "server", EmptyBlob), mode) : mode \in BadModes}
ScarInputs == {Signed(Content("x1", "bot:b", "server", ScarBlob), "valid")}
Inputs == GoodInputs \cup BadInputs \cup ScarInputs

\* ------------------------------------------------------------------- frames
MaxPacketSize == 65536
\* Encoded size of a field (tag and value) and of a payload, in abstract units.
FieldSize(f) == IF f[1] \in {1, 2, 10} THEN 2 + f[2].n ELSE 2
RECURSIVE Size(_)
Size(data) == IF data = <<>> THEN 0 ELSE FieldSize(Head(data)) + Size(Tail(data))

\* What writePacket puts on a connection: the 4-byte length prefix and the
\* payload.
Frame(pkt) == [len |-> Size(Marshal(pkt)), payload |-> Marshal(pkt)]
NoFrame == [len |-> 0, payload |-> <<>>]
\* A writePacket call that succeeded: the connection, the task that wrote and
\* the frame.
Wrote(to, by, pkt) == [to |-> to, by |-> by, frame |-> Frame(pkt)]
NoOut == [to |-> 0, by |-> 0, frame |-> NoFrame]

Reply(id, body) ==
    Packet(EmptyBlob, EmptyBlob, 1, id, "server", "", body, 0, 0, EmptyBlob)
\* The replies of the dst switch of handleConnection.
DoneReplyNoId(p) == Reply("", Text("done"))
DoneReply(p) == Reply(p.id, Text("done"))
OfflineReplyAsFailed(p) == Reply(p.id, Text("error:delivery_failed"))
OfflineReply(p) == Reply(p.id, Text("error:offline"))
FailedReply(p) == Reply(p.id, Text("error:delivery_failed"))
Heartbeat == Packet(EmptyBlob, EmptyBlob, 2, "", "server", "", Text(""), 0, 0, EmptyBlob)

\* The arguments of a writePacket call a task is about to make.
NoWrite == [to |-> NoConn, pkt |-> NoPacket]
StartWrite(to, pkt) == [to |-> to, pkt |-> pkt]

\* -------------------------------------------------------------------- state
VARIABLES
    agents,         \* identity -> connection (NoConn: no entry)
    connSrc,        \* connection -> identity ("": no entry)
    routeMu,        \* the task holding routeMu exclusively, or NoTask
    totalPackets,
    scarCount,      \* identity -> count (0: no entry)
    conn,           \* socket of each connection: "new", "open", "gone", "closed"
    pc,             \* position of each connection's handler
    cur,            \* the packet each handler is processing
    wr,             \* the writePacket call each task is in
    out,            \* the conn.Write the last step made, if it made one
    hbTodo,         \* identities the heartbeat pass has still to visit
    hbLog,          \* the writePacket calls the heartbeat pass has made so far
    rx,             \* the frame each handler's readPacket last took off its socket
    wire,           \* the last conn.Write each socket received: the writer and the part
    half,           \* tasks inside writePacket, between its two conn.Write calls
    readers,        \* the tasks holding routeMu for reading (RLock)
    scarCountMu     \* the task holding scarCountMu, or NoTask

vars == <<agents, connSrc, routeMu, totalPackets, scarCount, conn, pc, cur, wr,
          out, hbTodo, hbLog, rx, wire, half, readers, scarCountMu>>

routing == <<agents, connSrc>>
metrics == <<totalPackets, scarCount>>
hbVars == <<hbTodo, hbLog>>
ioVars == <<rx, wire, half>>
lockVars == <<readers, scarCountMu>>

NoChunk == [by |-> NoTask, part |-> "none"]
Chunk(by, part) == [by |-> by, part |-> part]

Init ==
    /\ agents = [i \in Identities |-> NoConn]
    /\ connSrc = [c \in Conns |-> ""]
    /\ routeMu = NoTask
    /\ totalPackets = 0
    /\ scarCount = [i \in Srcs |-> 0]
    /\ conn = [c \in Conns |-> "new"]
    /\ pc = [c \in Conns |-> "new"]
    /\ cur = [c \in Conns |-> NoPacket]
    /\ wr = [c \in Conns |-> NoWrite]
    /\ out = NoOut
    /\ hbTodo = {}
    /\ hbLog = {}
    /\ rx = [c \in Conns |-> NoFrame]
    /\ wire = [c \in Conns |-> NoChunk]
    /\ half = {}
    /\ readers = {}
    /\ scarCountMu = NoTask

\* ------------------------------------------------------------ routing table
\* The connection agents holds for the identity is closed even when it is the
\* registering connection itself.
registerConnTableClosesSame(identity, c) ==
    [a |-> [agents EXCEPT ![identity] = c],
     s |-> [d \in DOMAIN connSrc |-> IF d = c THEN identity
                            ELSE IF d = agents[identity] THEN "" ELSE connSrc[d]],
     closed |-> IF agents[identity] # NoConn THEN {agents[identity]} ELSE {}]

\* The connSrc entry of the connection that loses the identity is kept.
registerConnTableKeepsOldReverse(identity, c) ==
    [a |-> [agents EXCEPT ![identity] = c],
     s |-> [connSrc EXCEPT ![c] = identity],
     closed |-> IF agents[identity] \notin {NoConn, c} THEN {agents[identity]} ELSE {}]

registerConnTable(identity, c) ==
    [a |-> [agents EXCEPT ![identity] = c],
     s |-> [d \in DOMAIN connSrc |-> IF d = c THEN identity
                            ELSE IF d = agents[identity] THEN "" ELSE connSrc[d]],
     closed |-> IF agents[identity] \notin {NoConn, c} THEN {agents[identity]} ELSE {}]

\* The entry of the connection in connSrc is kept.
unregisterConnTableKeepsReverse(c) ==
    IF connSrc[c] # ""
    THEN [a |-> [agents EXCEPT ![connSrc[c]] = NoConn],
          s |-> connSrc]
    ELSE [a |-> agents, s |-> connSrc]

unregisterConnTable(c) ==
    IF connSrc[c] # ""
    THEN [a |-> [agents EXCEPT ![connSrc[c]] = NoConn],
          s |-> [connSrc EXCEPT ![c] = ""]]
    ELSE [a |-> agents, s |-> connSrc]

Close(set) == [d \in DOMAIN conn |-> IF d \in set THEN "closed" ELSE conn[d]]

\* ------------------------------------------------------------------ handler
\* main: l.Accept() and go handleConnection(conn); connections are numbered
\* in the order they are accepted.
Accept(c) ==
    /\ conn[c] = "new"
    /\ \A d \in DOMAIN conn : d < c => conn[d] # "new"
    /\ conn' = [conn EXCEPT ![c] = "open"]
    /\ pc' = [pc EXCEPT ![c] = "read"]
    /\ out' = NoOut
    /\ UNCHANGED <<routing, routeMu, metrics, cur, wr, hbVars>>
    /\ UNCHANGED <<ioVars, lockVars>>

\* strings.HasPrefix(p.Dst, "discover:") and strings.TrimPrefix.
HasDiscoverPrefix(dst) == dst \in DiscoverDsts
SuffixUnknownIsInfo(dst) ==
    CASE dst = "discover:agents" -> "agents"
      [] dst = "discover:stats" -> "stats"
      [] OTHER -> "info"
Suffix(dst) ==
    CASE dst = "discover:agents" -> "agents"
      [] dst = "discover:info" -> "info"
      [] dst = "discover:stats" -> "stats"
      [] OTHER -> "nope"

\* The dst switch of handleConnection: where the handler goes and the write
\* it starts.
\* Every admissible packet is answered "done" (the handler before routing).
DispatchPcAlwaysDone(p) == "reply_done"

\* The routing table is consulted before the reserved destinations.
DispatchPcLookupFirst(p) ==
    IF p.dst \in DOMAIN agents /\ agents[p.dst] # NoConn THEN "lookup"
    ELSE IF HasDiscoverPrefix(p.dst) THEN "discover"
    ELSE IF p.dst = "server" \/ p.dst = "" THEN "reply_done"
    ELSE "lookup"

DispatchPc(p) ==
    IF HasDiscoverPrefix(p.dst) THEN "discover"
    ELSE IF p.dst = "server" \/ p.dst = "" THEN "reply_done"
    ELSE "lookup"

DispatchWr(c, p) ==
    IF DispatchPc(p) = "reply_done"
    THEN StartWrite(c, DoneReply(p))
    ELSE NoWrite

DroppedUnsignedOnly(p) == p.sig.n = 0 /\ p.pk.n = 0

\* The two DROPPED checks of handleConnection.
Dropped(p) ==
    \/ p.sig.n = 0 /\ p.pk.n = 0
    \/ ~verifySig(p)

\* Identities that sent scar-bearing packets before the run starts, and the
\* packets the server has counted since.
Earlier == {i \in DOMAIN scarCount : i \notin Srcs}
Handled == totalPackets - Cardinality(Earlier)

\* The keys of scarCount: the identities counted before the run, and those of
\* the run whose count is not 0.
ScarKeys == Earlier \cup {i \in Srcs : scarCount[i] > 0}

\* The handler reads the next frame while the reply to the packet before it
\* is still to be written.
ReadPacketAhead(c, p) ==
    /\ pc[c] \in {"read", "reply_done", "reply_offline", "reply_failed", "reply_discover"}
    /\ conn[c] = "open"
    /\ Handled + Cardinality({d \in DOMAIN pc : pc[d] = "verify"}) < MaxPackets
    /\ cur' = [cur EXCEPT ![c] = p]
    /\ pc' = [pc EXCEPT ![c] = IF pc[c] = "read" THEN "verify" ELSE pc[c]]
    /\ out' = NoOut
    /\ UNCHANGED <<routing, routeMu, metrics, conn, wr, hbVars>>
    /\ UNCHANGED <<ioVars, lockVars>>

\* readPacket returns the packet p.
ReadPacket(c, p) ==
    /\ pc[c] = "read"
    /\ conn[c] = "open"
    /\ Handled + Cardinality({d \in DOMAIN pc : pc[d] = "verify"}) < MaxPackets
    /\ cur' = [cur EXCEPT ![c] = p]
    /\ pc' = [pc EXCEPT ![c] = "verify"]
    /\ out' = NoOut
    /\ UNCHANGED <<routing, routeMu, metrics, conn, wr, hbVars>>
    /\ UNCHANGED <<ioVars, lockVars>>

\* The two length checks of readPacket.
LenOKBelowMax(n) == n # 0 /\ n < MaxPacketSize
LenOK(n) == ~(n = 0) /\ ~(n > MaxPacketSize)

\* proto.Unmarshal returns no error: every field of the payload is a field of
\* Packet.
Decodes(data) == \A k \in 1..Len(data) : data[k][1] \in 1..10

\* readPacket returns an error for the frame f.
readPacketFails(f) == ~LenOK(f.len) \/ ~Decodes(f.payload)

\* readPacket takes the frame f off the socket: it returns the packet, or an
\* error, on which the handler returns.
ReadFrame(c, f) ==
    /\ pc[c] = "read"
    /\ conn[c] = "open"
    /\ Handled + Cardinality({d \in DOMAIN pc : pc[d] = "verify"}) < MaxPackets
    /\ rx' = [rx EXCEPT ![c] = f]
    /\ IF readPacketFails(f)
       THEN /\ pc' = [pc EXCEPT ![c] = "return"]
            /\ UNCHANGED cur
       ELSE /\ pc' = [pc EXCEPT ![c] = "verify"]
            /\ cur' = [cur EXCEPT ![c] = Unmarshal(f.payload)]
    /\ out' = NoOut
    /\ UNCHANGED <<routing, routeMu, metrics, conn, wr, hbVars, wire, half, lockVars>>

\* A packet that fails a check still registers its src.
DropRegisters(c) ==
    /\ pc[c] = "verify"
    /\ Dropped(cur[c])
    /\ IF cur[c].src # ""
       THEN /\ routeMu = NoTask
            /\ LET t == registerConnTable(cur[c].src, c)
               IN /\ agents' = t.a
                  /\ connSrc' = t.s
                  /\ conn' = Close(t.closed)
       ELSE UNCHANGED <<routing, conn>>
    /\ pc' = [pc EXCEPT ![c] = "read"]
    /\ cur' = [cur EXCEPT ![c] = NoPacket]
    /\ out' = NoOut
    /\ UNCHANGED <<routeMu, metrics, wr, hbVars>>
    /\ UNCHANGED <<ioVars, lockVars>>

\* A packet that fails a check is logged and the handler continues with the
\* next frame.
Drop(c) ==
    /\ pc[c] = "verify"
    /\ Dropped(cur[c])
    /\ pc' = [pc EXCEPT ![c] = "read"]
    /\ cur' = [cur EXCEPT ![c] = NoPacket]
    /\ out' = NoOut
    /\ UNCHANGED <<routing, routeMu, metrics, conn, wr, hbVars>>
    /\ UNCHANGED <<ioVars, lockVars>>

\* Only packets that register an identity are counted.
AdmitCountsNamed(c) ==
    /\ pc[c] = "verify"
    /\ ~Dropped(cur[c])
    /\ IF cur[c].src # ""
       THEN /\ routeMu = NoTask
            /\ LET t == registerConnTable(cur[c].src, c)
               IN /\ agents' = t.a
                  /\ connSrc' = t.s
                  /\ conn' = Close(t.closed)
       ELSE UNCHANGED <<routing, conn>>
    /\ totalPackets' = IF cur[c].src # "" THEN totalPackets + 1 ELSE totalPackets
    /\ IF cur[c].scar.n > 0
       THEN /\ pc' = [pc EXCEPT ![c] = "scar"]
            /\ UNCHANGED wr
       ELSE /\ pc' = [pc EXCEPT ![c] = DispatchPc(cur[c])]
            /\ wr' = [wr EXCEPT ![c] = DispatchWr(c, cur[c])]
    /\ out' = NoOut
    /\ UNCHANGED <<routeMu, scarCount, cur, hbVars>>
    /\ UNCHANGED <<ioVars, lockVars>>

\* A packet that passes both checks: registerConn(p.Src, c) when src is not
\* empty, then totalPackets.Add(1).
Admit(c) ==
    /\ pc[c] = "verify"
    /\ ~Dropped(cur[c])
    /\ IF cur[c].src # ""
       THEN /\ routeMu = NoTask
            /\ LET t == registerConnTable(cur[c].src, c)
               IN /\ agents' = t.a
                  /\ connSrc' = t.s
                  /\ conn' = Close(t.closed)
       ELSE UNCHANGED <<routing, conn>>
    /\ totalPackets' = totalPackets + 1
    /\ IF cur[c].scar.n > 0
       THEN /\ pc' = [pc EXCEPT ![c] = "scar"]
            /\ UNCHANGED wr
       ELSE /\ pc' = [pc EXCEPT ![c] = DispatchPc(cur[c])]
            /\ wr' = [wr EXCEPT ![c] = DispatchWr(c, cur[c])]
    /\ out' = NoOut
    /\ UNCHANGED <<routeMu, scarCount, cur, hbVars>>
    /\ UNCHANGED <<ioVars, lockVars>>


\* The map takes a new key while it holds MaxScarEntries keys.
ScarAtMost(c) ==
    /\ pc[c] = "scar"
    /\ scarCount' = IF Cardinality(ScarKeys) <= MaxScarEntries
                    THEN [scarCount EXCEPT ![cur[c].src] = @ + 1]
                    ELSE IF cur[c].src \in ScarKeys
                    THEN [scarCount EXCEPT ![cur[c].src] = @ + 1]
                    ELSE scarCount
    /\ pc' = [pc EXCEPT ![c] = DispatchPc(cur[c])]
    /\ wr' = [wr EXCEPT ![c] = DispatchWr(c, cur[c])]
    /\ out' = NoOut
    /\ UNCHANGED <<routing, routeMu, totalPackets, conn, cur, hbVars>>
    /\ UNCHANGED <<ioVars, lockVars>>

\* The scarCount update under scarCountMu.
Scar(c) ==
    /\ pc[c] = "scar"
    /\ scarCount' = IF Cardinality(ScarKeys) < MaxScarEntries
                    THEN [scarCount EXCEPT ![cur[c].src] = @ + 1]
                    ELSE IF cur[c].src \in ScarKeys
                    THEN [scarCount EXCEPT ![cur[c].src] = @ + 1]
                    ELSE scarCount
    /\ pc' = [pc EXCEPT ![c] = DispatchPc(cur[c])]
    /\ wr' = [wr EXCEPT ![c] = DispatchWr(c, cur[c])]
    /\ out' = NoOut
    /\ UNCHANGED <<routing, routeMu, totalPackets, conn, cur, hbVars>>
    /\ UNCHANGED <<ioVars, lockVars>>

\* ---------------------------------------------------------------- discovery
Bound == {i \in DOMAIN agents : agents[i] # NoConn}
Orderings(S) == {s \in [1..Cardinality(S) -> S] : \A i, j \in DOMAIN s : i # j => s[i] # s[j]}
Json(obj) == [text |-> "", json |-> obj]

\* The agents list leaves out the identity of the requester.
DiscoverOthers(c) ==
    /\ pc[c] = "discover"
    /\ LET p == cur[c]
           suffix == Suffix(p.dst)
       IN CASE suffix = "info" ->
                 /\ routeMu = NoTask
                 /\ wr' = [wr EXCEPT ![c] = StartWrite(c, Reply(p.id,
                              Json(<<"info", ServerVersion, Cardinality(Bound)>>)))]
                 /\ pc' = [pc EXCEPT ![c] = "reply_discover"]
            [] suffix = "agents" ->
                 /\ routeMu = NoTask
                 /\ \E list \in Orderings(Bound \ {connSrc[c]}) :
                      wr' = [wr EXCEPT ![c] = StartWrite(c, Reply(p.id, Json(<<"agents", list>>)))]
                 /\ pc' = [pc EXCEPT ![c] = "reply_discover"]
            [] suffix = "stats" ->
                 /\ wr' = [wr EXCEPT ![c] = StartWrite(c, Reply(p.id,
                              Json(<<"stats", scarCount, -1>>)))]
                 /\ pc' = [pc EXCEPT ![c] = "stats_total"]
            [] OTHER ->
                 /\ wr' = [wr EXCEPT ![c] = StartWrite(c, Reply(p.id, Text("error:unknown_discovery")))]
                 /\ pc' = [pc EXCEPT ![c] = "reply_discover"]
    /\ out' = NoOut
    /\ UNCHANGED <<routing, routeMu, metrics, conn, cur, hbVars>>
    /\ UNCHANGED <<ioVars, lockVars>>

\* agents_online counts the connections that have an identity.
DiscoverCountsConns(c) ==
    /\ pc[c] = "discover"
    /\ LET p == cur[c]
           suffix == Suffix(p.dst)
       IN CASE suffix = "info" ->
                 /\ routeMu = NoTask
                 /\ wr' = [wr EXCEPT ![c] = StartWrite(c, Reply(p.id,
                              Json(<<"info", ServerVersion,
                                     Cardinality({d \in Conns : connSrc[d] # ""})>>)))]
                 /\ pc' = [pc EXCEPT ![c] = "reply_discover"]
            [] suffix = "agents" ->
                 /\ routeMu = NoTask
                 /\ \E list \in Orderings(Bound) :
                      wr' = [wr EXCEPT ![c] = StartWrite(c, Reply(p.id, Json(<<"agents", list>>)))]
                 /\ pc' = [pc EXCEPT ![c] = "reply_discover"]
            [] suffix = "stats" ->
                 /\ wr' = [wr EXCEPT ![c] = StartWrite(c, Reply(p.id,
                              Json(<<"stats", scarCount, -1>>)))]
                 /\ pc' = [pc EXCEPT ![c] = "stats_total"]
            [] OTHER ->
                 /\ wr' = [wr EXCEPT ![c] = StartWrite(c, Reply(p.id, Text("error:unknown_discovery")))]
                 /\ pc' = [pc EXCEPT ![c] = "reply_discover"]
    /\ out' = NoOut
    /\ UNCHANGED <<routing, routeMu, metrics, conn, cur, hbVars>>
    /\ UNCHANGED <<ioVars, lockVars>>

\* handleDiscover up to the reply it builds: the snapshot under routeMu.RLock
\* (info, agents) or scarCountMu (stats), or the unknown-suffix body.
Discover(c) ==
    /\ pc[c] = "discover"
    /\ LET p == cur[c]
           suffix == Suffix(p.dst)
       IN CASE suffix = "info" ->
                 /\ routeMu = NoTask
                 /\ wr' = [wr EXCEPT ![c] = StartWrite(c, Reply(p.id,
                              Json(<<"info", ServerVersion, Cardinality(Bound)>>)))]
                 /\ pc' = [pc EXCEPT ![c] = "reply_discover"]
            [] suffix = "agents" ->
                 /\ routeMu = NoTask
                 /\ \E list \in Orderings(Bound) :
                      wr' = [wr EXCEPT ![c] = StartWrite(c, Reply(p.id, Json(<<"agents", list>>)))]
                 /\ pc' = [pc EXCEPT ![c] = "reply_discover"]
            [] suffix = "stats" ->
                 /\ wr' = [wr EXCEPT ![c] = StartWrite(c, Reply(p.id,
                              Json(<<"stats", scarCount, -1>>)))]
                 /\ pc' = [pc EXCEPT ![c] = "stats_total"]
            [] OTHER ->
                 /\ wr' = [wr EXCEPT ![c] = StartWrite(c, Reply(p.id, Text("error:unknown_discovery")))]
                 /\ pc' = [pc EXCEPT ![c] = "reply_discover"]
    /\ out' = NoOut
    /\ UNCHANGED <<routing, routeMu, metrics, conn, cur, hbVars>>
    /\ UNCHANGED <<ioVars, lockVars>>

\* totalPackets.Load() of the stats body, after scarCountMu is released.
StatsTotal(c) ==
    /\ pc[c] = "stats_total"
    /\ wr' = [wr EXCEPT ![c].pkt.body.json[3] = totalPackets]
    /\ pc' = [pc EXCEPT ![c] = "reply_discover"]
    /\ out' = NoOut
    /\ UNCHANGED <<routing, routeMu, metrics, conn, cur, hbVars>>
    /\ UNCHANGED <<ioVars, lockVars>>

\* ------------------------------------------------------------------ forward
\* agents[p.Dst] under routeMu.RLock.
Lookup(c) ==
    /\ pc[c] = "lookup"
    /\ routeMu = NoTask
    /\ LET p == cur[c]
           exists == p.dst \in DOMAIN agents /\ agents[p.dst] # NoConn
       IN IF ~exists
          THEN /\ wr' = [wr EXCEPT ![c] = StartWrite(c, OfflineReply(p))]
               /\ pc' = [pc EXCEPT ![c] = "reply_offline"]
          ELSE /\ wr' = [wr EXCEPT ![c] = StartWrite(agents[p.dst], p)]
               /\ pc' = [pc EXCEPT ![c] = "forward"]
    /\ out' = NoOut
    /\ UNCHANGED <<routing, routeMu, metrics, conn, cur, hbVars>>
    /\ UNCHANGED <<ioVars, lockVars>>

\* -------------------------------------------------------------- writePacket
WritePcs == {"reply_done", "reply_offline", "reply_failed", "reply_discover", "forward"}
TooLarge(pkt) == Size(Marshal(pkt)) > MaxPacketSize
\* A write succeeds on a socket that is open. It fails on one the server has
\* closed or whose peer has gone; that the peer has gone shows first in a
\* failing write or in a read that returns EOF.
CanSucceed(to) == conn[to] = "open"
Broken(to) == [conn EXCEPT ![to] = IF @ = "open" THEN "gone" ELSE @]

\* A successful forward is acknowledged to the sender.
AfterWriteAck(c, ok) ==
    CASE pc[c] = "forward" /\ ok ->
           /\ pc' = [pc EXCEPT ![c] = "reply_done"]
           /\ wr' = [wr EXCEPT ![c] = StartWrite(c, DoneReply(cur[c]))]
           /\ UNCHANGED cur
      [] pc[c] = "forward" /\ ~ok ->
           /\ pc' = [pc EXCEPT ![c] = "reply_failed"]
           /\ wr' = [wr EXCEPT ![c] = StartWrite(c, FailedReply(cur[c]))]
           /\ UNCHANGED cur
      [] pc[c] \in {"reply_done", "reply_offline", "reply_failed"} /\ ~ok ->
           /\ pc' = [pc EXCEPT ![c] = "return"]
           /\ wr' = [wr EXCEPT ![c] = NoWrite]
           /\ cur' = [cur EXCEPT ![c] = NoPacket]
      [] OTHER ->
           /\ pc' = [pc EXCEPT ![c] = "read"]
           /\ wr' = [wr EXCEPT ![c] = NoWrite]
           /\ cur' = [cur EXCEPT ![c] = NoPacket]

\* A failed forward ends the handler.
AfterWriteFailStop(c, ok) ==
    CASE ~ok ->
           /\ pc' = [pc EXCEPT ![c] = "return"]
           /\ wr' = [wr EXCEPT ![c] = NoWrite]
           /\ cur' = [cur EXCEPT ![c] = NoPacket]
      [] OTHER ->
           /\ pc' = [pc EXCEPT ![c] = "read"]
           /\ wr' = [wr EXCEPT ![c] = NoWrite]
           /\ cur' = [cur EXCEPT ![c] = NoPacket]

\* What the handler does when its writePacket call returns.
AfterWrite(c, ok) ==
    CASE pc[c] = "forward" /\ ~ok ->
           /\ pc' = [pc EXCEPT ![c] = "reply_failed"]
           /\ wr' = [wr EXCEPT ![c] = StartWrite(c, FailedReply(cur[c]))]
           /\ UNCHANGED cur
      [] pc[c] \in {"reply_done", "reply_offline", "reply_failed"} /\ ~ok ->
           /\ pc' = [pc EXCEPT ![c] = "return"]
           /\ wr' = [wr EXCEPT ![c] = NoWrite]
           /\ cur' = [cur EXCEPT ![c] = NoPacket]
      [] OTHER ->
           /\ pc' = [pc EXCEPT ![c] = "read"]
           /\ wr' = [wr EXCEPT ![c] = NoWrite]
           /\ cur' = [cur EXCEPT ![c] = NoPacket]

\* A handler whose forward write fails evicts and closes the target.
WritePacketEvicts(c, ok) ==
    /\ pc[c] \in WritePcs
    /\ IF ok
       THEN /\ ~TooLarge(wr[c].pkt)
            /\ CanSucceed(wr[c].to)
            /\ out' = Wrote(wr[c].to, c, wr[c].pkt)
            /\ UNCHANGED <<routing, conn>>
       ELSE /\ out' = NoOut
            /\ IF pc[c] = "forward"
               THEN /\ agents' = unregisterConnTable(wr[c].to).a
                    /\ connSrc' = unregisterConnTable(wr[c].to).s
                    /\ conn' = Close({wr[c].to})
               ELSE /\ conn' = IF TooLarge(wr[c].pkt) THEN conn ELSE Broken(wr[c].to)
                    /\ UNCHANGED routing
    /\ AfterWrite(c, ok)
    /\ UNCHANGED <<routeMu, metrics, hbVars>>
    /\ UNCHANGED <<ioVars, lockVars>>

\* A forward is written to the connection agents holds for dst when the
\* write is made.
WritePacketToCurrent(c, ok) ==
    LET to == IF pc[c] = "forward" /\ agents[cur[c].dst] # NoConn
              THEN agents[cur[c].dst] ELSE wr[c].to
    IN /\ pc[c] \in WritePcs
       /\ IF ok
          THEN /\ ~TooLarge(wr[c].pkt)
               /\ CanSucceed(to)
               /\ out' = Wrote(to, c, wr[c].pkt)
               /\ UNCHANGED conn
          ELSE /\ out' = NoOut
               /\ conn' = IF TooLarge(wr[c].pkt) THEN conn ELSE Broken(to)
       /\ AfterWrite(c, ok)
       /\ UNCHANGED <<routing, routeMu, metrics, hbVars>>
       /\ UNCHANGED <<ioVars, lockVars>>

\* writePacket(wr[c].to, wr[c].pkt) by a handler, and what follows.
WritePacket(c, ok) ==
    /\ pc[c] \in WritePcs
    /\ IF ok
       THEN /\ ~TooLarge(wr[c].pkt)
            /\ CanSucceed(wr[c].to)
            /\ out' = Wrote(wr[c].to, c, wr[c].pkt)
            /\ UNCHANGED conn
       ELSE /\ out' = NoOut
            /\ conn' = IF TooLarge(wr[c].pkt) THEN conn ELSE Broken(wr[c].to)
    /\ AfterWrite(c, ok)
    /\ UNCHANGED <<routing, routeMu, metrics, hbVars>>
    /\ UNCHANGED <<ioVars, lockVars>>

\* ------------------------------------------------------- handler exit (defer)
\* The handler that returns drops the scar count of its identity.
ExitClearsScar(c) ==
    /\ pc[c] \in {"read", "return"}
    /\ routeMu = NoTask
    /\ agents' = unregisterConnTable(c).a
    /\ connSrc' = unregisterConnTable(c).s
    /\ scarCount' = [scarCount EXCEPT ![connSrc[c]] = 0]
    /\ conn' = Close({c})
    /\ pc' = [pc EXCEPT ![c] = "done"]
    /\ out' = NoOut
    /\ UNCHANGED <<routeMu, totalPackets, cur, wr, hbVars>>
    /\ UNCHANGED <<ioVars, lockVars>>

\* readPacket returns an error (EOF, reset or closed socket), or a reply write failed:
\* the handler returns, the deferred unregisterConn(c) and c.Close() run.
Exit(c) ==
    /\ pc[c] \in {"read", "return"}
    /\ routeMu = NoTask
    /\ agents' = unregisterConnTable(c).a
    /\ connSrc' = unregisterConnTable(c).s
    /\ conn' = Close({c})
    /\ pc' = [pc EXCEPT ![c] = "done"]
    /\ out' = NoOut
    /\ UNCHANGED <<routeMu, metrics, cur, wr, hbVars>>
    /\ UNCHANGED <<ioVars, lockVars>>

\* ---------------------------------------------------------------- heartbeat
\* A tick: routeMu.Lock() and the start of the range over agents. A tick that
\* finds agents empty locks and unlocks at once.
HBTick ==
    /\ routeMu = NoTask
    /\ readers = {}
    /\ Bound # {}
    /\ routeMu' = HB
    /\ hbTodo' = Bound
    /\ hbLog' = {}
    /\ out' = NoOut
    /\ UNCHANGED <<routing, metrics, conn, pc, cur, wr>>
    /\ UNCHANGED <<ioVars, lockVars>>

\* A writePacket(conn, hb) call of the loop body and whether it returned nil.
HBCall(identity, c, ok) == [identity |-> identity, conn |-> c, ok |-> ok]

\* The failure branch deletes the agents entry only.
hbEvictAgentsOnly(identity, c) ==
    [a |-> [agents EXCEPT ![identity] = NoConn],
     s |-> connSrc]

\* The failure branch of the heartbeat loop body.
hbEvict(identity, c) ==
    [a |-> [agents EXCEPT ![identity] = NoConn],
     s |-> [connSrc EXCEPT ![c] = ""]]

\* The pass ends at the first write that fails.
HBWriteStopOnFail(i, ok) ==
    /\ routeMu = HB
    /\ i \in hbTodo \cap Bound
    /\ IF ok
       THEN /\ ~TooLarge(Heartbeat)
            /\ CanSucceed(agents[i])
            /\ out' = Wrote(agents[i], HB, Heartbeat)
            /\ UNCHANGED <<routing, conn>>
       ELSE /\ out' = NoOut
            /\ agents' = hbEvict(i, agents[i]).a
            /\ connSrc' = hbEvict(i, agents[i]).s
            /\ conn' = Close({agents[i]})
    /\ LET rest == IF ok THEN {j \in hbTodo \ {i} : agents'[j] # NoConn} ELSE {}
       IN /\ hbTodo' = rest
          /\ hbLog' = IF rest = {} THEN {} ELSE hbLog \cup {HBCall(i, agents[i], ok)}
          /\ routeMu' = IF rest = {} THEN NoTask ELSE HB
    /\ UNCHANGED <<metrics, pc, cur, wr>>
    /\ UNCHANGED <<ioVars, lockVars>>

\* A heartbeat write that fails is only logged.
HBWriteNoEvict(i, ok) ==
    /\ routeMu = HB
    /\ i \in hbTodo \cap Bound
    /\ IF ok
       THEN /\ ~TooLarge(Heartbeat)
            /\ CanSucceed(agents[i])
            /\ out' = Wrote(agents[i], HB, Heartbeat)
            /\ UNCHANGED <<routing, conn>>
       ELSE /\ out' = NoOut
            /\ conn' = Broken(agents[i])
            /\ UNCHANGED routing
    /\ LET rest == {j \in hbTodo \ {i} : agents'[j] # NoConn}
       IN /\ hbTodo' = rest
          /\ hbLog' = IF rest = {} THEN {} ELSE hbLog \cup {HBCall(i, agents[i], ok)}
          /\ routeMu' = IF rest = {} THEN NoTask ELSE HB
    /\ UNCHANGED <<metrics, pc, cur, wr>>
    /\ UNCHANGED <<ioVars, lockVars>>

\* One iteration of the range over agents: an entry that is still in the map,
\* writePacket(conn, hb), the eviction when it fails, and routeMu.Unlock()
\* when the range is exhausted.
HBWrite(i, ok) ==
    /\ routeMu = HB
    /\ i \in hbTodo \cap Bound
    /\ IF ok
       THEN /\ ~TooLarge(Heartbeat)
            /\ CanSucceed(agents[i])
            /\ out' = Wrote(agents[i], HB, Heartbeat)
            /\ UNCHANGED <<routing, conn>>
       ELSE /\ out' = NoOut
            /\ agents' = hbEvict(i, agents[i]).a
            /\ connSrc' = hbEvict(i, agents[i]).s
            /\ conn' = Close({agents[i]})
    /\ LET rest == {j \in hbTodo \ {i} : agents'[j] # NoConn}
       IN /\ hbTodo' = rest
          /\ hbLog' = IF rest = {} THEN {} ELSE hbLog \cup {HBCall(i, agents[i], ok)}
          /\ routeMu' = IF rest = {} THEN NoTask ELSE HB
    /\ UNCHANGED <<metrics, pc, cur, wr>>
    /\ UNCHANGED <<ioVars, lockVars>>

\* ------------------------------------------- writePacket, one conn.Write a step
InWrite(task, id) == [task |-> task, id |-> id]

\* writePacket up to and including conn.Write(lenBuf[:]): the length prefix.
WriteLen(c, ok) ==
    /\ pc[c] \in WritePcs
    /\ InWrite(c, "") \notin half
    /\ IF ok
       THEN /\ ~TooLarge(wr[c].pkt)
            /\ CanSucceed(wr[c].to)
            /\ wire' = [wire EXCEPT ![wr[c].to] = Chunk(c, "len")]
            /\ half' = half \cup {InWrite(c, "")}
            /\ out' = NoOut
            /\ UNCHANGED <<routing, routeMu, metrics, conn, pc, cur, wr, hbVars, rx, lockVars>>
       ELSE WritePacket(c, FALSE)

\* conn.Write(data): the payload, and what the handler does when writePacket
\* returns.
WritePayload(c, ok) ==
    /\ InWrite(c, "") \in half
    /\ IF ok
       THEN /\ CanSucceed(wr[c].to)
            /\ wire' = [wire EXCEPT ![wr[c].to] = Chunk(c, "payload")]
            /\ out' = Wrote(wr[c].to, c, wr[c].pkt)
            /\ UNCHANGED conn
       ELSE /\ out' = NoOut
            /\ conn' = Broken(wr[c].to)
            /\ UNCHANGED wire
    /\ half' = half \ {InWrite(c, "")}
    /\ AfterWrite(c, ok)
    /\ UNCHANGED <<routing, routeMu, metrics, hbVars, rx, lockVars>>

\* The heartbeat's writePacket(conn, hb) up to and including the length
\* prefix; a failure is the failure branch of the loop body.
HBWriteLen(i, ok) ==
    /\ \A h \in half : h.task # HB
    /\ IF ok
       THEN /\ routeMu = HB
            /\ i \in hbTodo \cap Bound
            /\ ~TooLarge(Heartbeat)
            /\ CanSucceed(agents[i])
            /\ wire' = [wire EXCEPT ![agents[i]] = Chunk(HB, "len")]
            /\ half' = half \cup {InWrite(HB, i)}
            /\ out' = NoOut
            /\ UNCHANGED <<routing, routeMu, metrics, conn, pc, cur, wr, hbVars, rx, lockVars>>
       ELSE HBWrite(i, FALSE)

\* The heartbeat's payload write and the rest of the loop body.
HBWritePayload(i, ok) ==
    /\ routeMu = HB
    /\ InWrite(HB, i) \in half
    /\ IF ok
       THEN /\ CanSucceed(agents[i])
            /\ wire' = [wire EXCEPT ![agents[i]] = Chunk(HB, "payload")]
            /\ out' = Wrote(agents[i], HB, Heartbeat)
            /\ UNCHANGED <<routing, conn>>
       ELSE /\ out' = NoOut
            /\ agents' = hbEvict(i, agents[i]).a
            /\ connSrc' = hbEvict(i, agents[i]).s
            /\ conn' = Close({agents[i]})
            /\ UNCHANGED wire
    /\ half' = half \ {InWrite(HB, i)}
    /\ LET rest == {j \in hbTodo \ {i} : agents'[j] # NoConn}
       IN /\ hbTodo' = rest
          /\ hbLog' = IF rest = {} THEN {} ELSE hbLog \cup {HBCall(i, agents[i], ok)}
          /\ routeMu' = IF rest = {} THEN NoTask ELSE HB
    /\ UNCHANGED <<metrics, pc, cur, wr, rx, lockVars>>

\* ------------------------------------------------------------ specification
Next ==
    \/ \E c \in Conns : Accept(c)
    \/ \E c \in Conns, p \in Inputs : ReadPacket(c, p)
    \/ \E c \in Conns : Drop(c)
    \/ \E c \in Conns : Admit(c)
    \/ \E c \in Conns : Scar(c)
    \/ \E c \in Conns : Lookup(c)
    \/ \E c \in Conns, ok \in BOOLEAN : WritePacket(c, ok)
    \/ \E c \in Conns : Exit(c)
    \/ HBTick
    \/ \E i \in Identities, ok \in BOOLEAN : HBWrite(i, ok)

Spec == Init /\ [][Next]_vars

\* The server reading frames at the limits of readPacket: a signed packet padded
\* (in scar) to a given encoded size, the empty payload and a payload that is
\* no Packet.
PadTo(src, dst, size) ==
    LET one == [n |-> 1, v |-> <<"pad">>]
        base == Signed(Content("x1", src, dst, one), "valid")
        pad == [n |-> 1 + size - Size(Marshal(base)), v |-> <<"pad">>]
    IN Signed(Content("x1", src, dst, pad), "valid")

Garbage == [len |-> 3, payload |-> << <<0, "junk">> >>]
FrameInputs ==
    {Frame(Signed(Content("x1", "bot:a", "server", EmptyBlob), "valid")),
     Frame(PadTo("bot:a", "server", MaxPacketSize)),
     Frame(PadTo("bot:a", "server", MaxPacketSize + 1)),
     Frame(NoPacket),
     Garbage}

NextRead ==
    \/ \E c \in Conns : Accept(c)
    \/ \E c \in Conns, f \in FrameInputs : ReadFrame(c, f)
    \/ \E c \in Conns : Admit(c)
    \/ \E c \in Conns : Scar(c)
    \/ \E c \in Conns, ok \in BOOLEAN : WritePacket(c, ok)
    \/ \E c \in Conns : Exit(c)
    \/ HBTick
    \/ \E i \in Identities, ok \in BOOLEAN : HBWrite(i, ok)

SpecRead == Init /\ [][NextRead]_vars

\* The server with every conn.Write of writePacket a step of its own.
WireInputs == {Signed(Content(id, src, dst, EmptyBlob), "valid") :
                  id \in Ids, src \in Identities, dst \in {"server", "bot:a"}}

NextWire ==
    \/ \E c \in Conns : Accept(c)
    \/ \E c \in Conns, p \in WireInputs : ReadPacket(c, p)
    \/ \E c \in Conns : Admit(c)
    \/ \E c \in Conns : Lookup(c)
    \/ \E c \in Conns, ok \in BOOLEAN : WriteLen(c, ok)
    \/ \E c \in Conns, ok \in BOOLEAN : WritePayload(c, ok)
    \/ \E c \in Conns : Exit(c)
    \/ HBTick
    \/ \E i \in Identities, ok \in BOOLEAN : HBWriteLen(i, ok)
    \/ \E i \in Identities, ok \in BOOLEAN : HBWritePayload(i, ok)

SpecWire == Init /\ [][NextWire]_vars

\* The server answering discovery queries next to server pings.
DiscInputs == {Signed(Content(id, src, dst, EmptyBlob), "valid") :
                  id \in Ids, src \in Srcs, dst \in {"server"} \cup DiscoverDsts}

NextDisc ==
    \/ \E c \in Conns : Accept(c)
    \/ \E c \in Conns, p \in DiscInputs : ReadPacket(c, p)
    \/ \E c \in Conns : Admit(c)
    \/ \E c \in Conns : Discover(c)
    \/ \E c \in Conns : StatsTotal(c)
    \/ \E c \in Conns, ok \in BOOLEAN : WritePacket(c, ok)
    \/ \E c \in Conns : Exit(c)
    \/ HBTick
    \/ \E i \in Identities, ok \in BOOLEAN : HBWrite(i, ok)

SpecDisc == Init /\ [][NextDisc]_vars

\* The server with scarCount at its limit: K identities, each with one
\* scar-bearing packet counted, are in the map when the run starts, and their
\* connections are gone.
Filler(k) == "id:" \o ToString(k)
InitScar ==
    /\ agents = [i \in Identities |-> NoConn]
    /\ connSrc = [c \in Conns |-> ""]
    /\ routeMu = NoTask
    /\ \E K \in {MaxScarEntries - 1, MaxScarEntries} :
          /\ scarCount = [i \in Srcs \cup {Filler(k) : k \in 1..K} |->
                             IF i \in Srcs THEN 0 ELSE 1]
          /\ totalPackets = K
    /\ conn = [c \in Conns |-> "new"]
    /\ pc = [c \in Conns |-> "new"]
    /\ cur = [c \in Conns |-> NoPacket]
    /\ wr = [c \in Conns |-> NoWrite]
    /\ out = NoOut
    /\ hbTodo = {}
    /\ hbLog = {}
    /\ rx = [c \in Conns |-> NoFrame]
    /\ wire = [c \in Conns |-> NoChunk]
    /\ half = {}
    /\ readers = {}
    /\ scarCountMu = NoTask

ScarOnlyInputs == {Signed(Content("x1", src, "server", ScarBlob), "valid") : src \in Srcs}

NextScar ==
    \/ \E c \in Conns : Accept(c)
    \/ \E c \in Conns, p \in ScarOnlyInputs : ReadPacket(c, p)
    \/ \E c \in Conns : Admit(c)
    \/ \E c \in Conns : Scar(c)
    \/ \E c \in Conns, ok \in BOOLEAN : WritePacket(c, ok)
    \/ \E c \in Conns : Exit(c)
    \/ HBTick
    \/ \E i \in Identities, ok \in BOOLEAN : HBWrite(i, ok)

SpecScar == InitScar /\ [][NextScar]_vars

\* The server with clients that register, clients that send with an empty
\* src and clients whose packets fail the checks, sending to "bot:a" and
\* asking for the agents list.
RegInputs ==
    {Signed(Content("x1", src, dst, EmptyBlob), "valid") :
        src \in Srcs, dst \in {"bot:a", "discover:agents"}}
    \cup {Signed(Content("x1", "bot:b", "bot:a", EmptyBlob), mode) :
             mode \in {"unsigned", "tampered"}}

NextReg ==
    \/ \E c \in Conns : Accept(c)
    \/ \E c \in Conns, p \in RegInputs : ReadPacket(c, p)
    \/ \E c \in Conns : Drop(c)
    \/ \E c \in Conns : Admit(c)
    \/ \E c \in Conns : Discover(c)
    \/ \E c \in Conns : Lookup(c)
    \/ \E c \in Conns, ok \in BOOLEAN : WritePacket(c, ok)
    \/ \E c \in Conns : Exit(c)
    \/ HBTick
    \/ \E i \in Identities, ok \in BOOLEAN : HBWrite(i, ok)

SpecReg == Init /\ [][NextReg]_vars

\* The server with clients that number their packets: two ids, every kind of
\* reply of the dst switch ("done", a discovery reply, "error:offline",
\* "error:delivery_failed") and forwards.
OrderIds == {"x1", "x2"}
OrderInputs ==
    {Signed(Content(id, src, dst, EmptyBlob), "valid") :
        id \in OrderIds, src \in {"", "bot:a"}, dst \in {"server", "bot:a", "discover:info"}}

NextOrder ==
    \/ \E c \in Conns : Accept(c)
    \/ \E c \in Conns, p \in OrderInputs : ReadPacket(c, p)
    \/ \E c \in Conns : Admit(c)
    \/ \E c \in Conns : Discover(c)
    \/ \E c \in Conns : Lookup(c)
    \/ \E c \in Conns, ok \in BOOLEAN : WritePacket(c, ok)
    \/ \E c \in Conns : Exit(c)
    \/ HBTick
    \/ \E i \in Identities, ok \in BOOLEAN : HBWrite(i, ok)

SpecOrder == Init /\ [][NextOrder]_vars

\* The server, between two ticks of the heartbeat, with clients that take the
\* reserved destinations as their identity: src "server" and src
\* "discover:info", next to "bot:a".
ReservedNames == {"server", "discover:info"}
InitReserved ==
    /\ agents = [i \in Identities \cup ReservedNames |-> NoConn]
    /\ connSrc = [c \in Conns |-> ""]
    /\ routeMu = NoTask
    /\ totalPackets = 0
    /\ scarCount = [i \in Srcs \cup ReservedNames |-> 0]
    /\ conn = [c \in Conns |-> "new"]
    /\ pc = [c \in Conns |-> "new"]
    /\ cur = [c \in Conns |-> NoPacket]
    /\ wr = [c \in Conns |-> NoWrite]
    /\ out = NoOut
    /\ hbTodo = {}
    /\ hbLog = {}
    /\ rx = [c \in Conns |-> NoFrame]
    /\ wire = [c \in Conns |-> NoChunk]
    /\ half = {}
    /\ readers = {}
    /\ scarCountMu = NoTask

\* A client registers with a server ping under its name and then sends with
\* an empty src to every kind of destination.
ReservedInputs ==
    {Signed(Content("x1", src, "server", EmptyBlob), "valid") :
        src \in {"bot:a"} \cup ReservedNames}
    \cup {Signed(Content("x1", "", dst, EmptyBlob), "valid") :
             dst \in {"", "bot:a"} \cup ReservedNames}

NextReserved ==
    \/ \E c \in Conns : Accept(c)
    \/ \E c \in Conns, p \in ReservedInputs : ReadPacket(c, p)
    \/ \E c \in Conns : Admit(c)
    \/ \E c \in Conns : Discover(c)
    \/ \E c \in Conns : Lookup(c)
    \/ \E c \in Conns, ok \in BOOLEAN : WritePacket(c, ok)
    \/ \E c \in Conns : Exit(c)

SpecReserved == InitReserved /\ [][NextReserved]_vars

\* The server with three client connections (the third is numbered 4, 3 being
\* the heartbeat goroutine): clients that register as "bot:a" with a server
\* ping and clients that send to "bot:a" with an empty src.
ThreeConns == Conns \cup {4}
InitThree ==
    /\ agents = [i \in Identities |-> NoConn]
    /\ connSrc = [c \in ThreeConns |-> ""]
    /\ routeMu = NoTask
    /\ totalPackets = 0
    /\ scarCount = [i \in Srcs |-> 0]
    /\ conn = [c \in ThreeConns |-> "new"]
    /\ pc = [c \in ThreeConns |-> "new"]
    /\ cur = [c \in ThreeConns |-> NoPacket]
    /\ wr = [c \in ThreeConns |-> NoWrite]
    /\ out = NoOut
    /\ hbTodo = {}
    /\ hbLog = {}
    /\ rx = [c \in ThreeConns |-> NoFrame]
    /\ wire = [c \in ThreeConns |-> NoChunk]
    /\ half = {}
    /\ readers = {}
    /\ scarCountMu = NoTask

TakeoverInputs ==
    {Signed(Content("x1", "bot:a", "server", EmptyBlob), "valid"),
     Signed(Content("x1", "", "bot:a", EmptyBlob), "valid")}

NextTakeover ==
    \/ \E c \in ThreeConns : Accept(c)
    \/ \E c \in ThreeConns, p \in TakeoverInputs : ReadPacket(c, p)
    \/ \E c \in ThreeConns : Admit(c)
    \/ \E c \in ThreeConns : Lookup(c)
    \/ \E c \in ThreeConns, ok \in BOOLEAN : WritePacket(c, ok)
    \/ \E c \in ThreeConns : Exit(c)
    \/ HBTick
    \/ \E i \in Identities, ok \in BOOLEAN : HBWrite(i, ok)

SpecTakeover == InitThree /\ [][NextTakeover]_vars

\* The server under fair scheduling. Clients register as "bot:a" or "bot:b"
\* with a server ping and send to "bot:a" with an empty src; they send and
\* disconnect when they like.
LiveInputs ==
    {Signed(Content("x1", src, "server", EmptyBlob), "valid") : src \in Identities}
    \cup {Signed(Content("x1", "", "bot:a", EmptyBlob), "valid")}

\* readPacket returns an error on a socket that is closed or broken, and the
\* handler returns.
Returns(c) == (pc[c] = "return" \/ conn[c] # "open") /\ Exit(c)

NextLive ==
    \/ \E c \in Conns : Accept(c)
    \/ \E c \in Conns, p \in LiveInputs : ReadPacket(c, p)
    \/ \E c \in Conns : Admit(c)
    \/ \E c \in Conns : Lookup(c)
    \/ \E c \in Conns, ok \in BOOLEAN : WritePacket(c, ok)
    \/ \E c \in Conns : Exit(c)
    \/ HBTick
    \/ \E i \in Identities, ok \in BOOLEAN : HBWrite(i, ok)

\* Every goroutine that can take a step takes one: a writePacket call
\* returns, a goroutine waiting for routeMu gets it (sync.RWMutex starves no
\* waiter), a handler whose socket is closed or broken returns, and the
\* ticker fires again. No client has to send or to disconnect.
Fairness ==
    /\ \A c \in Conns : SF_vars(Admit(c))
    /\ \A c \in Conns : SF_vars(Lookup(c))
    /\ \A c \in Conns : WF_vars(\E ok \in BOOLEAN : WritePacket(c, ok))
    /\ \A c \in Conns : SF_vars(Returns(c))
    /\ SF_vars(HBTick)
    /\ WF_vars(\E i \in Identities, ok \in BOOLEAN : HBWrite(i, ok))

SpecLive == Init /\ [][NextLive]_vars /\ Fairness

\* ------------------------------------------ the locks, one operation a step
\* registerConn: routeMu.Lock().
registerConnLock(c) ==
    /\ pc[c] = "verify"
    /\ ~Dropped(cur[c])
    /\ cur[c].src # ""
    /\ routeMu = NoTask
    /\ readers = {}
    /\ routeMu' = c
    /\ pc' = [pc EXCEPT ![c] = "register"]
    /\ out' = NoOut
    /\ UNCHANGED <<routing, metrics, conn, cur, wr, hbVars, ioVars, readers, scarCountMu>>

\* registerConn returns with routeMu still locked.
registerConnNoUnlock(c) ==
    /\ pc[c] = "register"
    /\ LET t == registerConnTable(cur[c].src, c)
       IN /\ agents' = t.a
          /\ connSrc' = t.s
          /\ conn' = Close(t.closed)
    /\ totalPackets' = totalPackets + 1
    /\ IF cur[c].scar.n > 0
       THEN /\ pc' = [pc EXCEPT ![c] = "scar"]
            /\ UNCHANGED wr
       ELSE /\ pc' = [pc EXCEPT ![c] = DispatchPc(cur[c])]
            /\ wr' = [wr EXCEPT ![c] = DispatchWr(c, cur[c])]
    /\ out' = NoOut
    /\ UNCHANGED <<routeMu, scarCount, cur, hbVars, ioVars, readers, scarCountMu>>

\* registerConn: the body and the deferred routeMu.Unlock(), then
\* totalPackets.Add(1).
registerConnUnlock(c) ==
    /\ pc[c] = "register"
    /\ LET t == registerConnTable(cur[c].src, c)
       IN /\ agents' = t.a
          /\ connSrc' = t.s
          /\ conn' = Close(t.closed)
    /\ routeMu' = NoTask
    /\ totalPackets' = totalPackets + 1
    /\ IF cur[c].scar.n > 0
       THEN /\ pc' = [pc EXCEPT ![c] = "scar"]
            /\ UNCHANGED wr
       ELSE /\ pc' = [pc EXCEPT ![c] = DispatchPc(cur[c])]
            /\ wr' = [wr EXCEPT ![c] = DispatchWr(c, cur[c])]
    /\ out' = NoOut
    /\ UNCHANGED <<scarCount, cur, hbVars, ioVars, readers, scarCountMu>>

\* A packet with an empty src passes the checks: no registerConn call.
AdmitUnnamed(c) == cur[c].src = "" /\ Admit(c)

\* scarCountMu.Lock() of the scar counter.
scarCountMuLock(c) ==
    /\ pc[c] = "scar"
    /\ scarCountMu = NoTask
    /\ scarCountMu' = c
    /\ pc' = [pc EXCEPT ![c] = "scar_locked"]
    /\ out' = NoOut
    /\ UNCHANGED <<routing, routeMu, metrics, conn, cur, wr, hbVars, ioVars, readers>>

\* The scarCount update and scarCountMu.Unlock().
scarCountMuUnlock(c) ==
    /\ pc[c] = "scar_locked"
    /\ scarCount' = IF Cardinality(ScarKeys) < MaxScarEntries
                    THEN [scarCount EXCEPT ![cur[c].src] = @ + 1]
                    ELSE IF cur[c].src \in ScarKeys
                    THEN [scarCount EXCEPT ![cur[c].src] = @ + 1]
                    ELSE scarCount
    /\ scarCountMu' = NoTask
    /\ pc' = [pc EXCEPT ![c] = DispatchPc(cur[c])]
    /\ wr' = [wr EXCEPT ![c] = DispatchWr(c, cur[c])]
    /\ out' = NoOut
    /\ UNCHANGED <<routing, routeMu, totalPackets, conn, cur, hbVars, ioVars, readers>>

\* routeMu.RLock() of the forward.
LookupRLock(c) ==
    /\ pc[c] = "lookup"
    /\ routeMu = NoTask
    /\ readers' = readers \cup {c}
    /\ pc' = [pc EXCEPT ![c] = "lookup_locked"]
    /\ out' = NoOut
    /\ UNCHANGED <<routing, routeMu, metrics, conn, cur, wr, hbVars, ioVars, scarCountMu>>

\* agents[p.Dst] and routeMu.RUnlock().
LookupRUnlock(c) ==
    /\ pc[c] = "lookup_locked"
    /\ LET p == cur[c]
           exists == p.dst \in DOMAIN agents /\ agents[p.dst] # NoConn
       IN IF ~exists
          THEN /\ wr' = [wr EXCEPT ![c] = StartWrite(c, OfflineReply(p))]
               /\ pc' = [pc EXCEPT ![c] = "reply_offline"]
          ELSE /\ wr' = [wr EXCEPT ![c] = StartWrite(agents[p.dst], p)]
               /\ pc' = [pc EXCEPT ![c] = "forward"]
    /\ readers' = readers \ {c}
    /\ out' = NoOut
    /\ UNCHANGED <<routing, routeMu, metrics, conn, cur, hbVars, ioVars, scarCountMu>>

\* handleDiscover: routeMu.RLock() (info, agents) or scarCountMu.Lock()
\* (stats).
DiscoverLock(c) ==
    /\ pc[c] = "discover"
    /\ Suffix(cur[c].dst) \in {"info", "agents", "stats"}
    /\ IF Suffix(cur[c].dst) = "stats"
       THEN /\ scarCountMu = NoTask
            /\ scarCountMu' = c
            /\ UNCHANGED readers
       ELSE /\ routeMu = NoTask
            /\ readers' = readers \cup {c}
            /\ UNCHANGED scarCountMu
    /\ pc' = [pc EXCEPT ![c] = "discover_locked"]
    /\ out' = NoOut
    /\ UNCHANGED <<routing, routeMu, metrics, conn, cur, wr, hbVars, ioVars>>

\* handleDiscover: the snapshot and routeMu.RUnlock() or
\* scarCountMu.Unlock().
DiscoverUnlock(c) ==
    /\ pc[c] = "discover_locked"
    /\ LET p == cur[c]
           suffix == Suffix(p.dst)
       IN CASE suffix = "info" ->
                 /\ wr' = [wr EXCEPT ![c] = StartWrite(c, Reply(p.id,
                              Json(<<"info", ServerVersion, Cardinality(Bound)>>)))]
                 /\ pc' = [pc EXCEPT ![c] = "reply_discover"]
                 /\ readers' = readers \ {c}
                 /\ UNCHANGED scarCountMu
            [] suffix = "agents" ->
                 /\ \E list \in Orderings(Bound) :
                      wr' = [wr EXCEPT ![c] = StartWrite(c, Reply(p.id, Json(<<"agents", list>>)))]
                 /\ pc' = [pc EXCEPT ![c] = "reply_discover"]
                 /\ readers' = readers \ {c}
                 /\ UNCHANGED scarCountMu
            [] OTHER ->
                 /\ wr' = [wr EXCEPT ![c] = StartWrite(c, Reply(p.id,
                              Json(<<"stats", scarCount, -1>>)))]
                 /\ pc' = [pc EXCEPT ![c] = "stats_total"]
                 /\ scarCountMu' = NoTask
                 /\ UNCHANGED readers
    /\ out' = NoOut
    /\ UNCHANGED <<routing, routeMu, metrics, conn, cur, hbVars, ioVars>>

\* The handler returns: routeMu.Lock() of the deferred unregisterConn.
unregisterConnLock(c) ==
    /\ pc[c] \in {"read", "return"}
    /\ routeMu = NoTask
    /\ readers = {}
    /\ routeMu' = c
    /\ pc' = [pc EXCEPT ![c] = "unregister"]
    /\ out' = NoOut
    /\ UNCHANGED <<routing, metrics, conn, cur, wr, hbVars, ioVars, readers, scarCountMu>>

\* unregisterConn: the body and routeMu.Unlock(), then the deferred
\* c.Close().
unregisterConnUnlock(c) ==
    /\ pc[c] = "unregister"
    /\ agents' = unregisterConnTable(c).a
    /\ connSrc' = unregisterConnTable(c).s
    /\ routeMu' = NoTask
    /\ conn' = Close({c})
    /\ pc' = [pc EXCEPT ![c] = "done"]
    /\ out' = NoOut
    /\ UNCHANGED <<metrics, cur, wr, hbVars, ioVars, readers, scarCountMu>>

\* The server with every Lock and Unlock a step: clients that register as
\* "bot:a" with a scar-bearing server ping, ask for info and stats, and send
\* to "bot:a" with and without a src.
LockInputs ==
    {Signed(Content("x1", "bot:a", "server", ScarBlob), "valid"),
     Signed(Content("x1", "", "bot:a", EmptyBlob), "valid")}
    \cup {Signed(Content("x1", "bot:a", dst, EmptyBlob), "valid") :
             dst \in {"discover:info", "discover:stats"}}

NextLock ==
    \/ \E c \in Conns : Accept(c)
    \/ \E c \in Conns, p \in LockInputs : ReadPacket(c, p)
    \/ \E c \in Conns : registerConnLock(c)
    \/ \E c \in Conns : registerConnUnlock(c)
    \/ \E c \in Conns : AdmitUnnamed(c)
    \/ \E c \in Conns : scarCountMuLock(c)
    \/ \E c \in Conns : scarCountMuUnlock(c)
    \/ \E c \in Conns : LookupRLock(c)
    \/ \E c \in Conns : LookupRUnlock(c)
    \/ \E c \in Conns : DiscoverLock(c)
    \/ \E c \in Conns : DiscoverUnlock(c)
    \/ \E c \in Conns : StatsTotal(c)
    \/ \E c \in Conns, ok \in BOOLEAN : WritePacket(c, ok)
    \/ \E c \in Conns : unregisterConnLock(c)
    \/ \E c \in Conns : unregisterConnUnlock(c)
    \/ HBTick
    \/ \E i \in Identities, ok \in BOOLEAN : HBWrite(i, ok)

SpecLock == Init /\ [][NextLock]_vars

\* The server counting packets: server pings with and without scar, from
\* clients with and without a src.
MetricsInputs ==
    {Signed(Content("x1", src, "server", scar), "valid") : src \in Srcs, scar \in Scars}

NextMetrics ==
    \/ \E c \in Conns : Accept(c)
    \/ \E c \in Conns, p \in MetricsInputs : ReadPacket(c, p)
    \/ \E c \in Conns : Admit(c)
    \/ \E c \in Conns : Scar(c)
    \/ \E c \in Conns, ok \in BOOLEAN : WritePacket(c, ok)
    \/ \E c \in Conns : Exit(c)
    \/ HBTick
    \/ \E i \in Identities, ok \in BOOLEAN : HBWrite(i, ok)

SpecMetrics == Init /\ [][NextMetrics]_vars

\* ------------------------------------------------------------------- claims
\* A packet is admissible: sig is 64 bytes, pk is 32 bytes and the signature
\* verifies over the packet serialized with sig and pk cleared.
Admissible(p) ==
    /\ p.sig.n = 64
    /\ p.pk.n = 32
    /\ Len(p.sig.v) = 2
    /\ p.sig.v[1] = p.pk.v[1]
    /\ p.sig.v[2] = Marshal([p EXCEPT !.sig = EmptyBlob, !.pk = EmptyBlob])

\* Positions of a handler past the two checks: the packet in cur has reached
\* registerConn and totalPackets.Add and is at the scar counter or in the dst
\* switch.
ActingPcs == {"scar", "discover", "stats_total", "lookup"} \cup WritePcs

\* The handler of c makes a step.
Steps(c) == pc'[c] # pc[c]
\* The step is a writePacket call of c's handler that succeeded.
Writes(c) == out'.by = c
\* The packet in the frame the step wrote.
Written == Unmarshal(out'.frame.payload)
IsReply(r, id, body) ==
    r = [NoPacket EXCEPT !.id = id, !.typ = 1, !.src = "server", !.body = Text(body)]

\* C1: every packet that reaches registerConn, totalPackets.Add, the scar
\* counter or the dst switch is admissible: the step that takes a handler
\* past the checks, and every change of agents, connSrc, totalPackets or
\* scarCount made by a handler, is for an admissible packet.
C1_OnlyAdmissibleActedOn ==
    [][/\ \A c \in Conns : pc'[c] \in ActingPcs => Admissible(cur'[c])
       /\ (totalPackets' # totalPackets \/ scarCount' # scarCount)
            => \E c \in Conns : Steps(c) /\ Admissible(cur[c])
       /\ \A i \in Identities : agents'[i] \notin {agents[i], NoConn}
            => Steps(agents'[i]) /\ Admissible(cur[agents'[i]])
                 /\ cur[agents'[i]].src = i]_vars

C1_Witness ==
    \E c \in Conns :
        /\ pc[c] = "scar"
        /\ agents[cur[c].src] = c
        /\ totalPackets > 0
        /\ \E d \in Conns : pc[d] = "verify" /\ ~Admissible(cur[d])
                              /\ cur[d].sig.n = 64 /\ cur[d].pk.n = 32

\* C2: a packet that is not admissible changes nothing: the step that
\* handles it writes to no connection, leaves agents, connSrc, totalPackets,
\* scarCount and every socket as they are, and takes the handler back to
\* reading the next frame.
C2_BadPacketNoEffect ==
    [][\A c \in Conns :
          (pc[c] = "verify" /\ ~Admissible(cur[c]) /\ Steps(c))
          => /\ pc'[c] = "read"
             /\ out' = NoOut
             /\ UNCHANGED <<agents, connSrc, totalPackets, scarCount, conn>>]_vars

\* Every connection has sent a packet that is not admissible, one of them
\* unsigned and one with a signature that does not verify.
C2_Witness ==
    /\ \A c \in Conns : pc[c] = "verify" /\ ~Admissible(cur[c]) /\ conn[c] = "open"
    /\ \E c \in Conns : cur[c].sig.n = 0 /\ cur[c].pk.n = 0
    /\ \E c \in Conns : cur[c].sig.n = 64 /\ cur[c].pk.n = 32
    /\ totalPackets > 0

ServerDst(p) == p.dst = "server" \/ p.dst = ""
IsBound(dst) == dst \in Identities /\ agents[dst] # NoConn
LastWritten == Unmarshal(out.frame.payload)

\* C3: for an admissible packet whose dst is "server" or "", the handler makes
\* one write: the reply {id of the packet, typ 1, src "server", body "done"},
\* to the sending connection, after which it is done with the packet; it
\* writes nothing else and to no other connection (a write that fails on the
\* sender's socket ends the handler).
C3_ServerReplyDone ==
    [][\A c \in Conns :
          /\ (pc[c] = "verify" /\ Admissible(cur[c]) /\ ServerDst(cur[c]) /\ Steps(c))
             => pc'[c] \in {"scar", "reply_done"} /\ out' = NoOut
          /\ (pc[c] \in ActingPcs /\ ServerDst(cur[c]) /\ Steps(c))
             => \/ pc[c] = "scar" /\ pc'[c] = "reply_done" /\ out' = NoOut
                \/ /\ pc[c] = "reply_done"
                   /\ Writes(c)
                   /\ out'.to = c
                   /\ IsReply(Written, cur[c].id, "done")
                   /\ pc'[c] = "read"
                \/ pc[c] = "reply_done" /\ out' = NoOut /\ pc'[c] = "return"]_vars

\* The reply has just been written to its sender while the other connection
\* is open and registered.
C3_Witness ==
    /\ out.by \in Conns
    /\ out.to = out.by
    /\ IsReply(LastWritten, "x1", "done")
    /\ pc[out.by] = "read"
    /\ \E d \in Conns : d # out.by /\ conn[d] = "open" /\ connSrc[d] # ""

\* C4: for an admissible packet whose dst is bound in agents at lookup time,
\* the handler writes to the connection agents held for dst at that time, and
\* the packet in the frame it writes equals the packet it read in every
\* field, sig and pk included, so that verifySig holds of it.
C4_ForwardPreservesPacket ==
    [][\A c \in Conns :
          /\ (pc[c] = "lookup" /\ IsBound(cur[c].dst) /\ Steps(c))
             => /\ pc'[c] = "forward"
                /\ wr'[c].to = agents[cur[c].dst]
                /\ cur'[c] = cur[c]
          /\ (pc[c] = "forward" /\ Writes(c))
             => /\ out'.to = wr[c].to
                /\ Written = cur[c]
                /\ cur[c] \in Inputs
                /\ Written.sig = cur[c].sig /\ Written.pk = cur[c].pk
                /\ verifySig(Written)
                /\ Admissible(Written)]_vars

C4_Witness ==
    /\ out.by \in Conns
    /\ out.to \in Conns \ {out.by}
    /\ LastWritten.dst = "bot:a"
    /\ agents["bot:a"] = out.to
    /\ Admissible(LastWritten)

\* C5: when the forward write succeeds, the forwarded frame is the only
\* write the handler makes for the packet: it wrote nothing before it, and
\* it goes on to read the next frame with no reply to the sender pending.
C5_NoReplyAfterForward ==
    [][\A c \in Conns :
          /\ (pc[c] \in {"verify", "scar", "lookup"} /\ Steps(c)) => out' = NoOut
          /\ (pc[c] = "forward" /\ Writes(c))
             => /\ pc'[c] = "read"
                /\ wr'[c] = NoWrite
                /\ out'.to = wr[c].to
                /\ ~IsReply(Written, cur[c].id, Written.body.text)
                /\ (wr[c].to # c => out'.to # c)]_vars

\* A packet from bot:b has just been forwarded to another connection and its
\* sender is reading again.
C5_Witness ==
    /\ out.by \in Conns
    /\ out.to \in Conns \ {out.by}
    /\ LastWritten.src = "bot:b"
    /\ connSrc[out.by] = "bot:b"
    /\ pc[out.by] = "read"
    /\ wr[out.by] = NoWrite
    /\ conn[out.by] = "open"

\* C6: for an admissible packet whose dst is not "server", "" or a discover
\* selector and is not a key of agents at lookup time, the handler makes one
\* write: the reply {id of the packet, typ 1, src "server", body
\* "error:offline"}, to the sender; the packet goes to no connection.
C6_OfflineReply ==
    [][\A c \in Conns :
          /\ (pc[c] = "lookup" /\ ~IsBound(cur[c].dst) /\ Steps(c))
             => pc'[c] = "reply_offline" /\ out' = NoOut /\ cur'[c] = cur[c]
          /\ (pc[c] = "reply_offline" /\ Steps(c))
             => \/ /\ Writes(c)
                   /\ out'.to = c
                   /\ IsReply(Written, cur[c].id, "error:offline")
                   /\ pc'[c] = "read"
                \/ out' = NoOut /\ pc'[c] = "return"]_vars

C6_Witness ==
    /\ out.by \in Conns
    /\ out.to = out.by
    /\ IsReply(LastWritten, "x1", "error:offline")
    /\ pc[out.by] = "read"

\* C7: when the forward write fails, the handler does not return: it writes
\* the reply {id of the packet, typ 1, src "server", body
\* "error:delivery_failed"} to the sender and goes on to read the sender's
\* next frame.
C7_DeliveryFailedReply ==
    [][\A c \in Conns :
          /\ (pc[c] = "forward" /\ Steps(c) /\ ~Writes(c))
             => /\ pc'[c] = "reply_failed"
                /\ wr'[c].to = c
                /\ IsReply(wr'[c].pkt, cur[c].id, "error:delivery_failed")
                /\ cur'[c] = cur[c]
          /\ (pc[c] = "reply_failed" /\ Writes(c))
             => /\ out'.to = c
                /\ IsReply(Written, cur[c].id, "error:delivery_failed")
                /\ pc'[c] = "read"
          /\ (pc[c] = "reply_failed" /\ Steps(c) /\ ~Writes(c))
             => conn'[c] # "open" /\ pc'[c] = "return"]_vars

C7_Witness ==
    /\ out.by \in Conns
    /\ out.to = out.by
    /\ IsReply(LastWritten, "x1", "error:delivery_failed")
    /\ pc[out.by] = "read"
    /\ conn[out.by] = "open"

\* C8: registration is last-writer-wins: when registerConn(identity, new)
\* runs while identity is bound to a different connection old, then on return
\* old is closed, old is in neither agents nor connSrc, agents[identity] = new
\* and connSrc[new] = identity.
C8_RegisterLastWriterWins ==
    [][\A new \in Conns, identity \in Identities :
          LET old == agents[identity]
          IN (/\ pc[new] = "verify" /\ Steps(new)
              /\ Admissible(cur[new]) /\ cur[new].src = identity
              /\ old \notin {NoConn, new})
             => /\ conn'[old] = "closed"
                /\ connSrc'[old] = ""
                /\ \A j \in Identities : agents'[j] # old
                /\ agents'[identity] = new
                /\ connSrc'[new] = identity]_vars

\* C9: once A' has taken the identity held by A, A is closed and its handler
\* is finished with the identity: under every interleaving, while A's
\* handler winds down, the identity stays bound to A', A' stays open to
\* receive the packets sent to it, and the identity is listed once.
C9_TakeoverIsFinal ==
    [][\A A \in Conns, A2 \in Conns, identity \in Identities :
          A # A2 =>
          /\ (/\ pc[A2] = "verify" /\ Steps(A2) /\ Admissible(cur[A2])
              /\ cur[A2].src = identity /\ agents[identity] = A)
             => conn'[A] = "closed" /\ agents'[identity] = A2
          /\ (/\ conn[A] = "closed" /\ pc[A] # "done" /\ Steps(A)
              /\ agents[identity] = A2 /\ conn[A2] = "open")
             => /\ agents'[identity] = A2
                /\ conn'[A2] # "closed"
                /\ Cardinality({i \in Bound' : i = identity}) = 1]_vars

\* C10: whenever routeMu is free, agents and connSrc are mutual inverses:
\* agents[i] = c exactly when connSrc[c] = i.
C10_MutualInverses ==
    routeMu = NoTask =>
        \A i \in Identities, c \in Conns : agents[i] = c <=> connSrc[c] = i

\* C11: the byte stream of a connection is a sequence of whole frames: a
\* length prefix is written only to a connection whose last write is not a
\* length prefix, and a payload only right after the length prefix of the
\* same writer.
C11_FramesAtomic ==
    [][\A t \in Conns :
          wire'[t] # wire[t]
          => /\ wire'[t].part = "len" => wire[t].part # "len"
             /\ wire'[t].part = "payload"
                => wire[t] = Chunk(wire'[t].by, "len")]_vars

\* The step is a return of readPacket in the handler of c.
ReadReturns(c) == pc[c] = "read" /\ pc'[c] \in {"verify", "return"}

\* C12: readPacket accepts a frame whose declared length N has 0 < N <= 65536
\* (65536 included), and on a declared length of 0 or of 65537 or more the
\* handler ends its read loop: it returns, and its deferred calls unregister
\* the connection and close it.
C12_FrameLengthBounds ==
    [][\A c \in Conns :
          /\ (ReadReturns(c) /\ pc'[c] = "verify")
             => /\ 0 < rx'[c].len /\ rx'[c].len <= 65536
                /\ cur'[c] = Unmarshal(rx'[c].payload)
          /\ (ReadReturns(c) /\ 0 < rx'[c].len /\ rx'[c].len <= 65536
                /\ Decodes(rx'[c].payload))
             => pc'[c] = "verify"
          /\ (ReadReturns(c) /\ (rx'[c].len = 0 \/ rx'[c].len >= 65537))
             => /\ pc'[c] = "return"
                /\ UNCHANGED <<agents, connSrc, totalPackets, scarCount, conn>>
                /\ out' = NoOut
          /\ (pc[c] = "return" /\ Steps(c))
             => /\ pc'[c] = "done"
                /\ conn'[c] = "closed"
                /\ connSrc'[c] = ""
                /\ connSrc[c] # "" => agents'[connSrc[c]] = NoConn]_vars

\* A frame of exactly 65536 bytes has been accepted on one connection, and
\* the other, registered, has been closed after a frame of 65537.
C12_Witness ==
    \E c, d \in Conns :
        /\ pc[c] = "verify" /\ rx[c].len = 65536
        /\ pc[d] = "done" /\ rx[d].len = 65537 /\ conn[d] = "closed"
        /\ totalPackets > 0

\* C13: a well-framed payload that does not decode as a Packet does not end
\* the connection: the handler stays in its read loop, and the connection
\* stays open and registered.
C13_DecodeErrorContinues ==
    [][\A c \in Conns :
          (/\ pc[c] = "read" /\ rx'[c] # rx[c]
           /\ 0 < rx'[c].len /\ rx'[c].len <= 65536
           /\ ~Decodes(rx'[c].payload))
          => pc'[c] = "read"]_vars

\* C14: a reply to the sender whose write fails ("done", "error:offline",
\* "error:delivery_failed" or a discovery reply) ends the sender's handler: it
\* returns without reading another frame.
C14_FailedReplyEndsHandler ==
    [][\A c \in Conns :
          (/\ pc[c] \in {"reply_done", "reply_offline", "reply_failed", "reply_discover"}
           /\ Steps(c) /\ ~Writes(c))
          => pc'[c] = "return"]_vars

\* C15: totalPackets counts the admissible packets exactly: the step that
\* takes an admissible packet past the checks adds exactly one, whatever the
\* dst of the packet; the step that handles a packet that is not admissible
\* leaves it alone; and no other step (a reply or a forward that succeeds or
\* fails, the scar counter, a handler's exit, the heartbeat) changes it.
C15_TotalPacketsExact ==
    [][/\ \A c \in Conns :
            (pc[c] = "verify" /\ Steps(c))
            => totalPackets' = totalPackets + (IF Admissible(cur[c]) THEN 1 ELSE 0)
       /\ totalPackets' # totalPackets
            => /\ totalPackets' = totalPackets + 1
               /\ Cardinality({c \in Conns : pc[c] = "verify" /\ Steps(c)
                                                /\ Admissible(cur[c])}) = 1]_vars

\* Two packets are counted, one of them with an empty src; the reply to one
\* sender has failed and its handler is returning, and a packet that is not
\* admissible is in front of the checks on the other connection.
C15_Witness ==
    /\ totalPackets = 2
    /\ \E c, d \in Conns :
          /\ pc[c] = "return" /\ conn[c] = "gone" /\ connSrc[c] = ""
          /\ pc[d] = "verify" /\ ~Admissible(cur[d]) /\ connSrc[d] # ""

\* C16: scarCount never holds more than MaxScarEntries (1000) keys: while it
\* holds 1000 keys, the scar-bearing admissible packet of an identity that is
\* not a key changes nothing in the map, and that of an identity that is a key
\* adds one to the count of that identity; below 1000 keys every scar-bearing
\* admissible packet adds one to the count of its identity.
C16_ScarCountBounded ==
    [][/\ Cardinality(ScarKeys') <= 1000
       /\ \A c \in Conns :
            (pc[c] = "scar" /\ Steps(c))
            => LET i == cur[c].src
                   one == [scarCount EXCEPT ![i] = @ + 1]
               IN /\ Admissible(cur[c]) /\ cur[c].scar.n > 0
                  /\ (Cardinality(ScarKeys) >= 1000 /\ i \notin ScarKeys)
                        => scarCount' = scarCount
                  /\ (Cardinality(ScarKeys) >= 1000 /\ i \in ScarKeys)
                        => scarCount' = one
                  /\ Cardinality(ScarKeys) < 1000 => scarCount' = one
       /\ scarCount' # scarCount => \E c \in Conns : pc[c] = "scar" /\ Steps(c)]_vars

\* The map holds 1000 keys, "bot:a" among them with two packets counted, and
\* the scar-bearing packet of "bot:b", which is not a key, has passed the
\* counter.
C16_Witness ==
    /\ Cardinality(ScarKeys) = 1000
    /\ scarCount["bot:a"] = 2
    /\ scarCount["bot:b"] = 0
    /\ \E c \in Conns : pc[c] = "reply_done" /\ cur[c].src = "bot:b" /\ cur[c].scar.n > 0

\* The step is an iteration of the heartbeat loop, and the one that ends the
\* pass; the writePacket calls of the pass up to and including this step.
HBStep == routeMu = HB /\ hbTodo' # hbTodo
PassEnds == HBStep /\ routeMu' = NoTask
PassLog ==
    LET i == CHOOSE j \in hbTodo : j \notin hbTodo'
    IN hbLog \cup {HBCall(i, agents[i], out'.by = HB)}

\* C17: when a heartbeat pass ends, every connection to which a heartbeat
\* write of the pass failed is closed and is in neither agents nor connSrc,
\* and every identity whose connection took all its heartbeat writes is still
\* bound to that connection, which the heartbeat has not closed.
C17_HeartbeatEvicts ==
    [][PassEnds =>
          \A r \in PassLog :
             /\ ~r.ok => /\ conn'[r.conn] = "closed"
                         /\ connSrc'[r.conn] = ""
                         /\ \A j \in Identities : agents'[j] # r.conn
             /\ (\A q \in PassLog : q.conn = r.conn => q.ok)
                  => agents'[r.identity] = r.conn /\ conn'[r.conn] # "closed"]_vars

\* C18: a heartbeat pass starts with every identity bound in agents at the
\* tick to visit; each iteration calls writePacket on the connection of one of
\* them and takes that one off the list; the pass ends when none is left;
\* while it runs, an identity in agents is one still to visit or one whose
\* connection was written to. A frame the heartbeat writes carries the packet
\* {typ 2, src "server"}, every other field empty, and goes to a connection
\* that is a value of agents.
C18_HeartbeatToAllBound ==
    [][/\ (routeMu = NoTask /\ routeMu' = HB) => hbTodo' = Bound /\ hbLog' = {}
       /\ HBStep
            => /\ \E i \in hbTodo : /\ hbTodo' = hbTodo \ {i}
                                    /\ agents[i] \in Conns
                                    /\ out'.by = HB => out'.to = agents[i]
               /\ routeMu' = NoTask <=> hbTodo' = {}
               /\ Bound' = hbTodo' \cup {r.identity : r \in {q \in PassLog : q.ok}}
       /\ out'.by = HB
            => /\ HBStep
               /\ \E i \in Identities : agents[i] = out'.to
               /\ Written = [NoPacket EXCEPT !.typ = 2, !.src = "server"]
               /\ out'.frame = Frame(Written)
       /\ (routeMu = HB /\ ~HBStep) => UNCHANGED <<agents, connSrc, hbTodo, hbLog>>]_vars

\* In the middle of a pass: the heartbeat has written to the connection of
\* one identity and the other identity, bound to the other connection, is
\* still to visit.
C18_Witness ==
    /\ routeMu = HB
    /\ out.by = HB
    /\ LastWritten.typ = 2 /\ LastWritten.src = "server"
    /\ \E r \in hbLog : r.ok /\ r.conn = out.to
    /\ \E j \in hbTodo : agents[j] \in Conns \ {out.to} /\ conn[agents[j]] = "open"

\* The handler of c takes the snapshot of a discover:agents query while "bot:a"
\* is bound to another connection A, registered under that identity alone,
\* and agents holds nothing else but c under the src of the query.
AgentsQuery(c) ==
    /\ pc[c] = "discover" /\ Steps(c)
    /\ cur[c].dst = "discover:agents"
    /\ \E A \in Conns \ {c} : agents["bot:a"] = A /\ connSrc[A] = "bot:a"
    /\ \A i \in Bound \ {"bot:a"} : i = cur[c].src /\ agents[i] = c
\* The agents list of the reply the handler of c has built.
ListOf(w) == w.pkt.body.json[2]
Elems(list) == {list[k] : k \in 1..Len(list)}

\* C19 as stated: the query of the second connection is answered with the
\* list of exactly "bot:a".
C19_AgentsListOnlyA ==
    [][\A c \in Conns : AgentsQuery(c) => ListOf(wr'[c]) = <<"bot:a">>]_vars

\* The identity the query of c has registered and c still holds.
Own(c) == {i \in Identities : i = cur[c].src /\ agents[i] = c}

\* C19, amended: the list holds "bot:a" and the src of the query when that is
\* not empty and the second connection is still bound under it, each once; it
\* is the list of exactly "bot:a" for a query with an empty src. The reply
\* goes to the second connection.
C19_AgentsListAAndSelf ==
    [][\A c \in Conns :
          AgentsQuery(c)
          => /\ Elems(ListOf(wr'[c])) = {"bot:a"} \cup Own(c)
             /\ Len(ListOf(wr'[c])) = Cardinality(Elems(ListOf(wr'[c])))
             /\ Own(c) = {} <=> ListOf(wr'[c]) = <<"bot:a">>
             /\ cur[c].src = "" => ListOf(wr'[c]) = <<"bot:a">>
             /\ wr'[c].to = c
             /\ pc'[c] = "reply_discover"]_vars

\* The second connection, which sent its query as "bot:b", has been sent the
\* list of "bot:a" and "bot:b" while "bot:a" is bound to the first.
C19_Witness ==
    \E c \in Conns :
        /\ out.by = c /\ out.to = c
        /\ Len(LastWritten.body.json) = 2
        /\ LastWritten.body.json[1] = "agents"
        /\ Elems(LastWritten.body.json[2]) = {"bot:a", "bot:b"}
        /\ connSrc[c] = "bot:b"
        /\ \E A \in Conns \ {c} : agents["bot:a"] = A /\ connSrc[A] = "bot:a" /\ conn[A] = "open"

DiscoverPcs == {"discover", "stats_total", "reply_discover"}

\* C20: the body of a discover:info reply carries as agents_online the number
\* of identities bound in agents when handleDiscover takes its snapshot, and
\* the body of a discover:agents reply lists the keys of agents at its
\* snapshot, each once; the reply a discovery query is answered with is the
\* packet built at the snapshot, {id of the query, typ 1, src "server", that
\* body}, and the handler writes it to the requesting connection and writes
\* nothing to any other.
C20_DiscoverySnapshot ==
    [][\A c \in Conns :
          /\ (pc[c] = "discover" /\ Steps(c))
             => /\ out' = NoOut
                /\ wr'[c].to = c
                /\ wr'[c].pkt = Reply(cur[c].id, wr'[c].pkt.body)
                /\ cur[c].dst = "discover:info"
                     => wr'[c].pkt.body.json = <<"info", "0.3.0", Cardinality(Bound)>>
                /\ cur[c].dst = "discover:agents"
                     => /\ wr'[c].pkt.body.json[1] = "agents"
                        /\ Elems(ListOf(wr'[c])) = Bound
                        /\ Len(ListOf(wr'[c])) = Cardinality(Bound)
          /\ (pc[c] = "reply_discover" /\ ~Steps(c)) => wr'[c] = wr[c] /\ cur'[c] = cur[c]
          /\ (pc[c] \in DiscoverPcs /\ Writes(c))
             => /\ pc[c] = "reply_discover"
                /\ out'.to = c
                /\ Written = wr[c].pkt
                /\ Written = [NoPacket EXCEPT !.id = cur[c].id, !.typ = 1, !.src = "server",
                                              !.body = wr[c].pkt.body]
          /\ (pc[c] \in DiscoverPcs /\ Steps(c) /\ ~Writes(c)) => out' = NoOut]_vars

\* A discover:info reply with agents_online 2 has been written to its
\* requester, each connection being bound under one identity.
C20_Witness ==
    \E c \in Conns :
        /\ out.by = c /\ out.to = c
        /\ LastWritten.body.json = <<"info", "0.3.0", 2>>
        /\ LastWritten.id = "x1" /\ LastWritten.typ = 1 /\ LastWritten.src = "server"
        /\ agents["bot:a"] \in Conns /\ agents["bot:b"] \in Conns \ {agents["bot:a"]}
        /\ \A d \in Conns : conn[d] = "open"

\* The dst of p starts with "discover:" and its suffix is none of info,
\* agents, stats.
UnknownDiscovery(p) ==
    /\ HasDiscoverPrefix(p.dst)
    /\ p.dst \notin {"discover:info", "discover:agents", "discover:stats"}

\* C21: for an admissible packet with an unknown discover: suffix the handler
\* builds the reply {id of the packet, typ 1, src "server", body
\* "error:unknown_discovery"} for the sender, touching nothing else; the frame
\* it writes is that reply, to the sender; it writes to no other connection,
\* and the server does not close the connection: the handler goes back to
\* reading it.
C21_UnknownDiscovery ==
    [][\A c \in Conns :
          /\ (pc[c] = "verify" /\ Admissible(cur[c]) /\ UnknownDiscovery(cur[c]) /\ Steps(c))
             => pc'[c] = "discover" /\ out' = NoOut
          /\ (pc[c] = "discover" /\ UnknownDiscovery(cur[c]) /\ Steps(c))
             => /\ pc'[c] = "reply_discover"
                /\ wr'[c].to = c
                /\ IsReply(wr'[c].pkt, cur[c].id, "error:unknown_discovery")
                /\ out' = NoOut
                /\ UNCHANGED <<agents, connSrc, conn, cur>>
          /\ (pc[c] = "reply_discover" /\ UnknownDiscovery(cur[c]) /\ Steps(c))
             => /\ pc'[c] = "read"
                /\ conn'[c] = "closed" => conn[c] = "closed"
                /\ Writes(c) => /\ out'.to = c
                                /\ IsReply(Written, cur[c].id, "error:unknown_discovery")
                                /\ conn'[c] = "open"
                /\ ~Writes(c) => out' = NoOut]_vars

\* The reply has been written to the sender, which is open and reading
\* again, while the other connection is registered.
C21_Witness ==
    \E c \in Conns :
        /\ out.by = c /\ out.to = c
        /\ IsReply(LastWritten, "x1", "error:unknown_discovery")
        /\ pc[c] = "read" /\ conn[c] = "open"
        /\ \E d \in Conns \ {c} : connSrc[d] # "" /\ conn[d] = "open"

\* The handler of c finishes the packet in cur[c] and goes back to reading;
\* the step writes the reply "done" to the sender.
Finishes(c) == pc[c] \in WritePcs /\ Steps(c) /\ pc'[c] = "read"
RepliesDone(c) == Writes(c) /\ out'.to = c /\ IsReply(Written, cur[c].id, "done")

C23_OneIdentityPerConn ==
    [][/\ \A c \in Conns, i1 \in Identities, i2 \in Identities :
            (/\ pc[c] = "verify" /\ Steps(c) /\ Admissible(cur[c])
             /\ cur[c].src = i2 /\ i1 # i2 /\ agents[i1] = c)
            => agents'[i1] # c
       /\ \A c \in Conns : Cardinality({i \in Identities : agents'[i] = c}) <= 1]_vars

\* C24: a connection whose handler has exited (its deferred unregisterConn
\* and Close have run) is the value of no key of agents and is not a key of
\* connSrc.
C24_ExitedIsUnbound ==
    \A c \in Conns :
        pc[c] = "done" => connSrc[c] = "" /\ \A i \in Identities : agents[i] # c

\* C25: no task performs I/O on a connection while it holds routeMu: the
\* task that writes a frame does not hold the lock at that step, and a
\* handler does not hold it when its readPacket returns.
C25_NoIOUnderLock ==
    [][/\ out'.by # NoTask => routeMu # out'.by
       /\ \A c \in Conns : ReadReturns(c) => routeMu # c]_vars

\* The connections the heartbeat pass has still to write to, any of which may
\* be slow to take the frame.
HBTargets == {agents[i] : i \in hbTodo}

\* C26: a write that is pending on one connection delays no handler of
\* another connection whose packet is neither for nor from the identity of
\* that connection: while the
\* heartbeat has a write to make, such a handler holding an admissible packet
\* can take its next step (registerConn and totalPackets.Add, the lookup of
\* its destination).
C26_SlowTargetIsolated ==
    \A c \in Conns :
        (/\ routeMu = HB
         /\ c \notin HBTargets
         /\ \A i \in hbTodo : cur[c].dst # i /\ cur[c].src # i)
        => /\ (pc[c] = "verify" /\ Admissible(cur[c])) => ENABLED Admit(c)
           /\ pc[c] = "lookup" => ENABLED Lookup(c)

\* The accepted connections whose handler has not exited.
Held == {c \in Conns : pc[c] \notin {"new", "done"}}

\* C27: the number of identities bound in agents is at most the number of
\* accepted connections that handlers currently hold.
C27_BoundAtMostHeld == Cardinality(Bound) <= Cardinality(Held)

\* The step is the return of registerConn(i, c) in the handler of c.
Registers(c, i) ==
    pc[c] = "verify" /\ Steps(c) /\ Admissible(cur[c]) /\ cur[c].src = i

\* C28: registerConn(i, c) leaves agents[i] = c and connSrc[c] = i, and a call
\* that finds the tables so (a second call with the same arguments) closes no
\* connection and changes neither agents nor connSrc; any call that finds
\* agents[i] = c closes no connection and leaves agents as it is.
C28_RegisterIdempotent ==
    [][\A c \in Conns, i \in Identities :
          Registers(c, i)
          => /\ agents'[i] = c /\ connSrc'[c] = i
             /\ (agents[i] = c /\ connSrc[c] = i) => UNCHANGED <<agents, connSrc, conn>>
             /\ agents[i] = c => agents' = agents /\ conn' = conn]_vars

\* The only connection accepted has sent a scar-bearing packet as "bot:b"
\* and then a second packet as "bot:b", which has passed registerConn; it is
\* open and bound as before.
C28_Witness ==
    \E c \in Conns :
        /\ pc[c] = "reply_done" /\ cur[c].src = "bot:b" /\ cur[c].scar.n = 0
        /\ scarCount["bot:b"] = 1 /\ totalPackets = 2
        /\ agents["bot:b"] = c /\ connSrc[c] = "bot:b" /\ conn[c] = "open"
        /\ agents["bot:a"] = NoConn
        /\ \A d \in Conns \ {c} : pc[d] = "new"

\* The step is the deferred unregisterConn(c) of the handler of c.
Unregisters(c) == pc[c] \in {"read", "return"} /\ pc'[c] = "done"

\* C29: unregisterConn(c) for a connection that is a key of connSrc removes
\* connSrc[c] and the entry of agents under that identity, which is the entry
\* of c, and touches no other entry; for a connection that is not a key of connSrc it changes
\* neither map; and a second call, made in the state the first call leaves,
\* changes neither map.
C29_UnregisterIdempotent ==
    [][\A c \in Conns :
          Unregisters(c)
          => /\ connSrc[c] # ""
                  => /\ agents[connSrc[c]] = c
                     /\ agents' = [agents EXCEPT ![connSrc[c]] = NoConn]
                     /\ connSrc' = [connSrc EXCEPT ![c] = ""]
             /\ connSrc[c] = "" => UNCHANGED <<agents, connSrc>>
             /\ unregisterConnTable(c)'.a = agents'
             /\ unregisterConnTable(c)'.s = connSrc']_vars

\* The only connection accepted registered as "bot:b" with a scar-bearing
\* packet; its handler has exited, and both maps are empty.
C29_Witness ==
    \E c \in Conns :
        /\ pc[c] = "done" /\ conn[c] = "closed"
        /\ scarCount["bot:b"] = 1
        /\ \A d \in Conns \ {c} : pc[d] = "new"
        /\ Bound = {}
        /\ \A d \in Conns : connSrc[d] = ""

\* The connection is bound in neither map.
Unbound(c) == connSrc[c] = "" /\ \A i \in Identities : agents[i] # c

\* C30: a connection gets an entry in agents or in connSrc only by the step
\* that takes an admissible packet of its own with that non-empty src past the
\* checks; a packet that is not admissible, and an admissible packet with an
\* empty src, change neither map. A connection bound in neither map is written
\* to by no other task (no forward, no heartbeat) and is the connection of no
\* identity in the list of a discover:agents reply.
C30_RegisteredOnlyByAdmissibleSrc ==
    [][\A c \in Conns :
          /\ \A i \in Identities : (agents'[i] = c /\ agents[i] # c) => Registers(c, i)
          /\ (connSrc'[c] # "" /\ connSrc'[c] # connSrc[c]) => Registers(c, connSrc'[c])
          /\ (/\ pc[c] = "verify" /\ Steps(c)
              /\ (~Admissible(cur[c]) \/ cur[c].src = ""))
             => UNCHANGED <<agents, connSrc>>
          /\ (Unbound(c) /\ out'.to = c) => out'.by = c
          /\ (pc[c] = "discover" /\ Steps(c) /\ cur[c].dst = "discover:agents")
             => \A d \in Conns, k \in 1..Len(ListOf(wr'[c])) :
                   Unbound(d) => agents[ListOf(wr'[c])[k]] # d]_vars

\* A connection that sent an admissible discover:agents query with an empty
\* src is open and bound in neither map, and the list built for it names
\* only "bot:a", which is bound to the other connection; the packets of the
\* two connections have been counted.
C30_Witness ==
    \E c \in Conns :
        /\ Unbound(c) /\ conn[c] = "open"
        /\ pc[c] = "reply_discover" /\ cur[c].src = ""
        /\ ListOf(wr[c]) = <<"bot:a">>
        /\ \E d \in Conns \ {c} : agents["bot:a"] = d /\ conn[d] = "open"
        /\ totalPackets = 2

\* The step writes a reply of the server to the connection c.
RepliesTo(c) == out'.to = c /\ Written.typ = 1 /\ Written.src = "server"

\* C31: on one connection the replies are written in the order the packets
\* were read. The handler has one packet in hand at a time: the packet in cur
\* changes only when readPacket returns the next one or the handler is done
\* with it; readPacket returns the next packet only when the handler is done
\* with the packet before it and has no write pending; and every reply
\* written to a connection is written by its own handler and echoes the id
\* of the packet in hand. So the reply to a packet read earlier is written
\* before the next packet is read, and before that packet's reply.
C31_RepliesInReadOrder ==
    [][\A c \in Conns :
          /\ cur'[c] # cur[c] => ReadReturns(c) \/ cur'[c] = NoPacket
          /\ ReadReturns(c) => cur[c] = NoPacket /\ wr[c] = NoWrite
          /\ RepliesTo(c)
             => /\ out'.by = c
                /\ Admissible(cur[c])
                /\ Written.id = cur[c].id
                /\ cur'[c] = NoPacket /\ wr'[c] = NoWrite]_vars

\* The only connection accepted has sent two packets, both counted: the
\* first registered it as "bot:a"; the reply to the second, a discover:info
\* query with id "x2", has just been written to it, and its handler is back
\* at readPacket.
C31_Witness ==
    \E c \in Conns :
        /\ out.to = c /\ out.by = c
        /\ LastWritten.typ = 1 /\ LastWritten.id = "x2"
        /\ LastWritten.body.json # <<>>
        /\ totalPackets = 2 /\ connSrc[c] = "bot:a"
        /\ pc[c] = "read" /\ cur[c] = NoPacket
        /\ \A d \in Conns \ {c} : pc[d] = "new"

\* Exactly one of sig and pk is empty.
OneOfSigPkEmpty(p) == (p.sig.n = 0) # (p.pk.n = 0)

\* C32: a packet with exactly one of sig and pk empty is dropped like an
\* unsigned one: it is not caught by the both-empty check, verifySig returns
\* false for it, and the step that handles it writes no reply, registers
\* nothing, changes no counter and no socket, and takes the handler back to
\* readPacket.
C32_HalfSignedDropped ==
    [][\A c \in Conns :
          (pc[c] = "verify" /\ OneOfSigPkEmpty(cur[c]) /\ Steps(c))
          => /\ ~(cur[c].sig.n = 0 /\ cur[c].pk.n = 0)
             /\ ~verifySig(cur[c])
             /\ pc'[c] = "read"
             /\ out' = NoOut
             /\ UNCHANGED <<agents, connSrc, totalPackets, scarCount, conn, wr>>]_vars

\* One handler holds a packet with a public key and no signature, the other
\* a packet with a signature and no public key, both from "bot:b"; a packet
\* has been counted before, and "bot:b" is not bound.
C32_Witness ==
    \E c, d \in Conns :
        /\ pc[c] = "verify" /\ cur[c].sig.n = 0 /\ cur[c].pk.n = PublicKeySize
        /\ pc[d] = "verify" /\ cur[d].sig.n = SignatureSize /\ cur[d].pk.n = 0
        /\ cur[c].src = "bot:b" /\ cur[d].src = "bot:b"
        /\ agents["bot:b"] = NoConn
        /\ totalPackets > 0

\* The forward write of the handler of c has failed at this step.
ForwardFails(c) == pc[c] = "forward" /\ Steps(c) /\ out' = NoOut
\* What a failed forward leaves: the sender neither evicts nor closes the
\* target and goes on to the "error:delivery_failed" reply; a forward to a
\* connection that is bound and whose socket is broken is attempted and fails
\* in the same way (it is not answered "error:offline").
FailedForwardEffect(c) ==
    /\ ForwardFails(c)
       => /\ UNCHANGED <<agents, connSrc>>
          /\ \A t \in Conns : conn'[t] = "closed" => conn[t] = "closed"
          /\ pc'[c] = "reply_failed"
          /\ wr'[c] = StartWrite(c, FailedReply(cur[c]))
    /\ (pc[c] = "lookup" /\ Steps(c) /\ IsBound(cur[c].dst))
       => pc'[c] = "forward" /\ wr'[c].to = agents[cur[c].dst]
    /\ (pc[c] = "forward" /\ Steps(c) /\ conn[wr[c].to] # "open")
       => ForwardFails(c)
\* A connection to which a write has failed and that is bound under i.
BrokenTarget(t, i) == conn[t] = "gone" /\ agents[i] = t /\ connSrc[t] = i
\* The step takes the connection t out of agents[i] or i out of connSrc[t].
Unbinds(t, i) == agents'[i] # t \/ connSrc'[t] # i

\* C33 (as stated): a failed forward write leaves agents and connSrc as they
\* are and closes no connection; the target stays bound in both maps until
\* its own handler exits or a heartbeat evicts it; further forwards to it
\* are answered "error:delivery_failed", not "error:offline".
C33_TargetBoundUntilExitOrEviction ==
    [][/\ \A c \in Conns : FailedForwardEffect(c)
       /\ \A t \in Conns, i \in Identities :
             (BrokenTarget(t, i) /\ Unbinds(t, i))
             => Unregisters(t) \/ HBStep]_vars

\* C33 (amended): as above, and the target stays bound in both maps until
\* its own handler exits, a heartbeat evicts it, another connection registers
\* under an identity agents holds it for (which displaces and closes it), or
\* its own handler registers it under another identity.
C33_TargetBoundUntilUnboundByOwner ==
    [][/\ \A c \in Conns : FailedForwardEffect(c)
       /\ \A t \in Conns, i \in Identities :
             (BrokenTarget(t, i) /\ Unbinds(t, i))
             => \/ Unregisters(t)
                \/ HBStep
                \/ \E d \in Conns \ {t}, j \in Identities :
                      Registers(d, j) /\ agents[j] = t
                \/ \E j \in Identities \ {i} : Registers(t, j)]_vars

\* A connection that never registered has sent two packets to "bot:a": the
\* forward of the second has failed like that of the first, its handler is
\* about to write "error:delivery_failed", and the target, whose socket is
\* broken, is still bound as "bot:a" in both maps.
C33_Witness ==
    \E c \in Conns, t \in Conns :
        /\ c # t /\ BrokenTarget(t, "bot:a")
        /\ pc[c] = "reply_failed" /\ wr[c] = StartWrite(c, FailedReply(cur[c]))
        /\ cur[c].dst = "bot:a" /\ connSrc[c] = "" /\ conn[c] = "open"
        /\ agents["bot:b"] = NoConn
        /\ totalPackets = 3

\* C34: the exit of a displaced connection's handler does not disturb the
\* new binding. The step in which a connection takes identity i from the
\* connection old deletes connSrc[old] and closes old; and whenever the
\* deferred unregisterConn(old) runs while agents[i] is another connection
\* that connSrc maps back to i, it leaves agents[i] and that connSrc entry
\* as they are, whatever the other handlers have done in between.
C34_DisplacedExitKeepsBinding ==
    [][\A old \in Conns : \A new \in Conns \ {old}, i \in Identities :
          /\ (Registers(new, i) /\ agents[i] = old)
             => /\ agents'[i] = new /\ connSrc'[new] = i
                /\ connSrc'[old] = "" /\ conn'[old] = "closed"
          /\ (Unregisters(old) /\ agents[i] = new /\ connSrc[new] = i)
             => agents'[i] = new /\ connSrc'[new] = i]_vars

\* The first connection registered as "bot:b" with a scar-bearing packet and
\* its handler has exited; the second, which registered as "bot:b" with the
\* packet it is answering, is open and holds the identity in both maps.
C34_Witness ==
    \E old \in Conns : \E new \in Conns \ {old} :
        /\ pc[old] = "done" /\ connSrc[old] = ""
        /\ agents["bot:b"] = new /\ connSrc[new] = "bot:b" /\ conn[new] = "open"
        /\ pc[new] = "reply_done" /\ cur[new].src = "bot:b" /\ cur[new].scar.n = 0
        /\ scarCount["bot:b"] = 1 /\ totalPackets = 2
        /\ agents["bot:a"] = NoConn

\* The destinations the dst switch handles itself.
ReservedDst(dst) == dst = "server" \/ dst = "" \/ HasDiscoverPrefix(dst)

\* C35: a packet whose dst is "server", "" or starts with "discover:" is
\* never forwarded, also when a connection is registered under an identity
\* equal to that dst: its handler never comes to the lookup or to a forward
\* write, every frame it writes for the packet goes to the sending
\* connection and is not the packet, and no frame that any handler writes to
\* a connection other than its own carries a packet with such a dst.
C35_ReservedDstNotForwarded ==
    [][\A c \in Conns :
          /\ (/\ pc[c] \in {"verify"} \cup ActingPcs /\ Steps(c)
              /\ Admissible(cur[c]) /\ ReservedDst(cur[c].dst))
             => /\ pc'[c] \notin {"lookup", "forward"}
                /\ pc[c] \notin {"lookup", "forward"}
                /\ Writes(c) => out'.to = c /\ Written # cur[c]
          /\ (Writes(c) /\ out'.to # c) => ~ReservedDst(Written.dst)]_vars

\* One connection is registered as "server" and the other as
\* "discover:info", both open; the handler of the second holds a packet
\* with dst "server" and an empty src and is about to write "done" to its
\* own connection, not to the connection agents holds for "server".
C35_Witness ==
    \E c \in Conns : \E d \in Conns \ {c} :
        /\ agents["server"] = d /\ conn[d] = "open"
        /\ agents["discover:info"] = c /\ conn[c] = "open"
        /\ pc[c] = "reply_done" /\ cur[c].dst = "server" /\ cur[c].src = ""
        /\ wr[c] = StartWrite(c, DoneReply(cur[c]))

\* The identity the handler of c is forwarding to has been taken over by
\* the connection new since the lookup.
TakenOver(c, new) ==
    /\ pc[c] = "forward"
    /\ agents[cur[c].dst] = new
    /\ new # wr[c].to

\* C36: the lookup and the forward write are not atomic. The connection a
\* handler captured at the lookup stays the target of its write whatever
\* happens to agents in between, and a forward is written to that connection
\* only. When the identity has been taken over by a new connection since
\* the lookup, nothing is written to the new connection; when the captured
\* connection is closed, the write fails and the handler goes on to answer
\* the sender "error:delivery_failed", although the identity is bound.
C36_ForwardToCapturedConn ==
    [][\A c \in ThreeConns :
          /\ (pc[c] = "forward" /\ pc'[c] = "forward") => wr'[c] = wr[c]
          /\ (pc[c] = "forward" /\ Writes(c)) => out'.to = wr[c].to /\ Written = cur[c]
          /\ \A new \in ThreeConns :
                (TakenOver(c, new) /\ Steps(c))
                => /\ out'.to # new
                   /\ conn[wr[c].to] = "closed"
                      => /\ out' = NoOut
                         /\ pc'[c] = "reply_failed"
                         /\ wr'[c] = StartWrite(c, FailedReply(cur[c]))
                         /\ agents'[cur[c].dst] = new]_vars

\* Three connections: the first registered as "bot:a", a sender looked it
\* up, the third took the identity over and is open, and the sender, whose
\* forward to the closed first connection has failed, is about to be
\* answered "error:delivery_failed".
C36_Witness ==
    \E c \in ThreeConns : \E old \in ThreeConns \ {c} : \E new \in ThreeConns \ {c, old} :
        /\ pc[c] = "reply_failed" /\ wr[c] = StartWrite(c, FailedReply(cur[c]))
        /\ cur[c].dst = "bot:a" /\ conn[c] = "open" /\ connSrc[c] = ""
        /\ agents["bot:a"] = new /\ connSrc[new] = "bot:a" /\ conn[new] = "open"
        /\ conn[old] = "closed" /\ connSrc[old] = ""
        /\ totalPackets = 3

\* The socket of c is closed by the server, or a write has found it broken.
IsClosed(c) == conn[c] \in {"closed", "gone"}

\* C37: under fair scheduling of the handlers and the heartbeat, every
\* connection that is closed (displaced, evicted, closed by its handler's
\* exit, or found broken by a write) is eventually the value of no key of
\* agents and not a key of connSrc; and from some time on the routing table
\* holds connections that are not closed only.
C37_ClosedEventuallyUnbound ==
    /\ \A c \in Conns : IsClosed(c) ~> Unbound(c)
    /\ <>[](\A c \in Conns : IsClosed(c) => Unbound(c))

\* A connection that registered as "bot:a" and then as "bot:b" has exited:
\* its socket is closed, its handler is done, and agents still holds it
\* under "bot:a" until the next heartbeat pass finds the write to it failing.
C37_Witness ==
    \E c \in Conns :
        /\ pc[c] = "done" /\ conn[c] = "closed"
        /\ agents["bot:a"] = c /\ agents["bot:b"] = NoConn /\ connSrc[c] = ""
        /\ routeMu = NoTask

\* The task holds routeMu, for writing or for reading; it holds a lock.
HoldsRouteMu(t) == routeMu = t \/ t \in readers
Holds(t) == HoldsRouteMu(t) \/ scarCountMu = t
\* The step is a Lock or RLock call of the task that returns.
Acquires(t) ==
    \/ routeMu' = t /\ routeMu # t
    \/ t \in readers' /\ t \notin readers
    \/ scarCountMu' = t /\ scarCountMu # t
\* The task is at a Lock or RLock call.
AtLock(t) ==
    /\ t \in Conns
    /\ \/ pc[t] = "verify" /\ ~Dropped(cur[t]) /\ cur[t].src # ""
       \/ pc[t] \in {"scar", "lookup", "return"}
       \/ pc[t] = "discover" /\ Suffix(cur[t].dst) \in {"info", "agents", "stats"}
\* A task that holds a lock is not at a Lock call and has a step to take:
\* a handler its Unlock, the heartbeat the next write of its pass.
HolderRuns(t) ==
    IF t = HB
    THEN ENABLED (\E i \in Identities, ok \in BOOLEAN : HBWrite(i, ok))
    ELSE /\ ~AtLock(t)
         /\ ENABLED (\/ registerConnUnlock(t) \/ scarCountMuUnlock(t)
                     \/ LookupRUnlock(t) \/ DiscoverUnlock(t)
                     \/ unregisterConnUnlock(t))

\* C38: no task holds routeMu and scarCountMu at the same time, no task
\* acquires a lock while it holds one (the same or the other), and every
\* task that holds a lock can take its next step without a lock, so that no
\* set of tasks waits on each other's locks in a cycle.
C38_NoLockDeadlock ==
    /\ [](\A t \in Tasks :
             /\ ~(HoldsRouteMu(t) /\ scarCountMu = t)
             /\ Holds(t) => HolderRuns(t))
    /\ [][\A t \in Tasks : Acquires(t) => ~Holds(t)]_vars

\* The heartbeat holds routeMu in the middle of its pass, one handler holds
\* scarCountMu for the scar counter, and the other handler waits at the
\* RLock of its forward.
C38_Witness ==
    \E c \in Conns : \E d \in Conns \ {c} :
        /\ routeMu = HB /\ hbTodo # {}
        /\ scarCountMu = c /\ pc[c] = "scar_locked"
        /\ pc[d] = "lookup"

\* The sum of the values of scarCount over the keys in S.
RECURSIVE SumScar(_)
SumScar(S) ==
    IF S = {} THEN 0
    ELSE LET i == CHOOSE j \in S : TRUE
         IN scarCount[i] + SumScar(S \ {i})

\* C39: the sum of all scarCount values is at most totalPackets in every
\* reachable state; totalPackets and every scarCount value never decrease,
\* and no key of scarCount is ever removed, whatever happens to the
\* connection of the identity (exit, displacement, eviction).
C39_ScarSumAtMostTotal ==
    /\ [](SumScar(DOMAIN scarCount) <= totalPackets)
    /\ [][/\ totalPackets' >= totalPackets
           /\ DOMAIN scarCount' = DOMAIN scarCount
           /\ \A i \in DOMAIN scarCount : scarCount'[i] >= scarCount[i]
           /\ ScarKeys \subseteq ScarKeys']_vars

\* Three packets have been counted, two of them scar-bearing, one from
\* "bot:a" and one from "bot:b"; the handlers have exited, no identity is
\* bound, and both counts are still there.
C39_Witness ==
    /\ totalPackets = 3
    /\ scarCount["bot:a"] = 1 /\ scarCount["bot:b"] = 1 /\ scarCount[""] = 0
    /\ Bound = {}
    /\ \A c \in Conns : pc[c] = "done" /\ conn[c] = "closed"

\* C40: whenever no task is inside the routing critical section, every entry
\* of connSrc has its inverse in agents (connSrc[c] = i implies
\* agents[i] = c), whatever registerConn, unregisterConn and heartbeat
\* evictions have run; so the agents entry that unregisterConn(c) deletes is
\* an entry whose value is c.
C40_ConnSrcHasInverse ==
    /\ [](routeMu = NoTask
            => \A c \in Conns : connSrc[c] # "" => agents[connSrc[c]] = c)
    /\ [][\A c \in Conns, i \in Identities :
             (Unregisters(c) /\ agents'[i] # agents[i])
             => agents[i] = c /\ connSrc[c] = i]_vars

\* After two registrations of one connection, a displacement or eviction of
\* the other and with no task in the critical section: one connection is
\* bound as "bot:b" and is still the value of "bot:a", the other has been
\* closed by the server and its handler has not returned yet.
C40_Witness ==
    \E c \in Conns : \E d \in Conns \ {c} :
        /\ routeMu = NoTask
        /\ connSrc[c] = "bot:b" /\ agents["bot:b"] = c /\ agents["bot:a"] = c
        /\ conn[d] = "closed" /\ pc[d] # "done" /\ connSrc[d] = ""
====
